---------------------------- MODULE Spec2Model ----------------------------
(***************************************************************************)
(* Chain Analytics Engine of option_signals_v2: the OI migration tracker,  *)
(* the magnet detector, the time-decay analyzer, the IV skew analyzer and  *)
(* the support/resistance level detector, each as a state machine whose    *)
(* actions are the analyzers' public calls.                                *)
(*                                                                         *)
(* Numbers: Python floats are modelled as exact rationals, a quotient a/b  *)
(* being kept as the pair [num |-> a, den |-> b] and compared by cross     *)
(* multiplication.                                                         *)
(***************************************************************************)
EXTENDS Integers, Sequences, FiniteSets, TLC

VARIABLES
    track_period,        \* OIMigrationAnalyzer.track_period
    migration_history,   \* OIMigrationAnalyzer.migration_history
    calls,               \* number of records appended so far (history variable)
    result,              \* what the last analyze_migration call produced
    threads,             \* concurrent callers of one tracker: per thread its position and locals
    window_size,         \* MagnetDetector.window_size
    total_oi,            \* the total OI per strike handed to _find_local_maxima, in strike order
    magnets,             \* what _find_local_maxima returned
    current_time,        \* the time of day handed to analyze_time_pressure, in seconds
    pin_chain,           \* the chain handed to analyze_time_pressure
    spot_price,          \* the spot price handed to analyze_time_pressure
    pressure,            \* what analyze_time_pressure returned
    skew_chain,          \* the chain handed to the IVSkewEnhanced sub-analyses, in strike order
    skew_spot,           \* the spot price handed to them
    skew_magnets,        \* the magnet strikes handed to _analyze_magnet_skew
    skew_out,            \* what the sub-analyses returned for skew_chain
    skew_prev,           \* what they returned before a leg with IV 0 was added to the chain
    level_chain,         \* the chain handed to _identify_supports and _identify_resistances
    levels,              \* what the two returned
    align_near,          \* the near-expiry chain handed to analyze_alignment
    align_far,           \* the far-expiry chain
    alignment,           \* what analyze_alignment returned
    history_file,        \* the list stored in HISTORY_FILE, a snapshot being the number of its save
    saved,               \* number of save_snapshot calls so far (history variable)
    returned,            \* what the last save_snapshot or last_n call returned
    fit_ce,              \* the known CE max-OI strikes of a history, oldest first
    fit_pe,              \* the known PE max-OI strikes of the same history
    fit,                 \* the trend fitted to them and its strength
    slope_values,        \* the series handed to _calculate_slope
    slope_out            \* what _calculate_slope returned for it

trackerVars == <<track_period, migration_history, calls, result, threads>>

magnetVars == <<window_size, total_oi, magnets>>

timeVars == <<current_time, pin_chain, spot_price, pressure>>

skewVars == <<skew_chain, skew_spot, skew_magnets, skew_out, skew_prev>>

levelVars == <<level_chain, levels>>

alignVars == <<align_near, align_far, alignment>>

historyVars == <<history_file, saved, returned>>

fitVars == <<fit_ce, fit_pe, fit>>

slopeVars == <<slope_values, slope_out>>

vars == <<track_period, migration_history, calls, result, threads,
          window_size, total_oi, magnets,
          current_time, pin_chain, spot_price, pressure,
          skew_chain, skew_spot, skew_magnets, skew_out, skew_prev,
          level_chain, levels,
          align_near, align_far, alignment,
          history_file, saved, returned,
          fit_ce, fit_pe, fit,
          slope_values, slope_out>>

-----------------------------------------------------------------------------
(* Bounds of the model *)

MaxTrackPeriod == 4
MaxCalls == 5
MaxSaves == 42           \* save_snapshot calls explored, above MAX_HISTORY
MaxRequest == 41         \* largest count asked of last_n
MaxSeriesLen == 5        \* longest series handed to _calculate_slope

(* Program constants *)

MinHistory == 3          \* len(self.migration_history) < 3, len(ce_strikes) >= 3
StrikeStep == 50         \* "Assuming 50 point increments"
PinDistance == 100       \* current_max['distance'] < 100
NoStrike == -1           \* max_ce_strike = None
DefaultWindow == 5       \* window_size: int = 5
GapTenths == 3           \* avg_gap_oi < 0.3 * avg_magnet_oi
TopMagnets == 5          \* sorted(magnets, ...)[:5]
SessionSeconds == 22500  \* session_length = 6.25 * 60 * 60
PinRadius == 100         \* abs(strike - spot_price) < 100
HighOI == 1000000        \* total_oi > 1000000
MaxTargets == 3          \* nearby_strikes[:3]
LevelFloor == 100000     \* pe_oi > 100000, ce_oi > 100000
StrengthCap == 5         \* min(pe_oi / (ce_oi + 1), 5) / 5
TopLevels == 5           \* sorted(supports, ...)[:5]
AlignTolerance == 50     \* abs(cs['strike'] - ns['strike']) <= 50
StrongTenths == 7        \* ns['strength'] > 0.7
MagnetFloor == 2000000   \* total_oi > 2000000
FullConfidence == 5000000 \* min(total_oi / 5000000, 1.0)
TopAlignMagnets == 3     \* sorted(magnets, ...)[:3]
MAX_HISTORY == 40        \* keep last 40 snapshots
DefaultTrackPeriod == 30 \* track_period: int = 30, the longest series of a default tracker

-----------------------------------------------------------------------------
(* Helpers: exact rationals *)

Abs(x) == IF x < 0 THEN -x ELSE x

Min2(a, b) == IF a < b THEN a ELSE b

Rat(n, d) == [num |-> n, den |-> d]

RatZero == Rat(0, 1)

\* a < b for rationals with positive denominators
RatLess(a, b) == a.num * b.den < b.num * a.den

RatEq(a, b) == a.num * b.den = b.num * a.den

RatAbs(a) == Rat(Abs(a.num), a.den)

RatAdd(a, b) == Rat(a.num * b.den + b.num * a.den, a.den * b.den)

RatSub(a, b) == Rat(a.num * b.den - b.num * a.den, a.den * b.den)

RatHalf(a) == Rat(a.num, 2 * a.den)

RatMin(a, b) == IF RatLess(b, a) THEN b ELSE a

-----------------------------------------------------------------------------
(* Inputs of the migration tracker: chain snapshots over a four-strike     *)
(* ladder.  A chain is the sequence of its rows in dict iteration order.   *)

Ladder == <<100, 150, 200, 250>>

\* The snapshot whose call OI peaks at ladder position c and whose put OI
\* peaks at position p; position 0 gives a leg with no open interest at all.
MkChain(c, p) ==
    [i \in 1..Len(Ladder) |->
        [strike |-> Ladder[i],
         ce |-> IF c = 0 THEN 0 ELSE IF i = c THEN 2 ELSE 1,
         pe |-> IF p = 0 THEN 0 ELSE IF i = p THEN 2 ELSE 1]]

\* The (call peak, put peak) positions of the snapshots fed to the tracker:
\* the two peaks mirrored, the two peaks on one strike, and no open interest.
Peaks ==
    {<<c, Len(Ladder) + 1 - c>> : c \in 1..Len(Ladder)}
    \cup {<<c, c>> : c \in 1..(Len(Ladder) - 1)}
    \cup {<<0, 0>>}

Chains == {MkChain(pk[1], pk[2]) : pk \in Peaks}

-----------------------------------------------------------------------------
(* OIMigrationAnalyzer *)

Truthy(strike) == strike # NoStrike /\ strike # 0

RECURSIVE ScanMax(_, _, _, _)
\* the loop of _get_max_oi_strikes over rows i..Len(chain) for one leg
ScanMax(chain, leg, i, best) ==
    IF i > Len(chain) THEN best
    ELSE LET oi == IF leg = "CE" THEN chain[i].ce ELSE chain[i].pe
         IN  ScanMax(chain, leg, i + 1,
                     IF oi > best.oi THEN [strike |-> chain[i].strike, oi |-> oi]
                     ELSE best)

GetMaxOIStrikes(chain) ==
    LET mc == ScanMax(chain, "CE", 1, [strike |-> NoStrike, oi |-> 0])
        mp == ScanMax(chain, "PE", 1, [strike |-> NoStrike, oi |-> 0])
    IN  [max_ce |-> mc, max_pe |-> mp,
         distance |-> IF Truthy(mc.strike) /\ Truthy(mp.strike)
                      THEN Abs(mc.strike - mp.strike) ELSE 0]

RECURSIVE SumTo(_, _)
\* sum of f[i] over i in 1..n
SumTo(f, n) == IF n = 0 THEN 0 ELSE f[n] + SumTo(f, n - 1)

\* the regression without the early return for fewer than 2 values
CalculateSlope_NoGuard(values) ==
    LET n == Len(values)
        sum_x == SumTo([i \in 1..n |-> i - 1], n)
        sum_y == SumTo(values, n)
        sum_xy == SumTo([i \in 1..n |-> (i - 1) * values[i]], n)
        sum_x2 == SumTo([i \in 1..n |-> (i - 1) * (i - 1)], n)
    IN  Rat(n * sum_xy - sum_x * sum_y, n * sum_x2 - sum_x * sum_x)

\* _calculate_slope: least-squares slope of values over x = 0..n-1, kept as
\* the pair of the numerator and the denominator of its division; a
\* denominator of 0 stands for the ZeroDivisionError of that division
CalculateSlope(values) ==
    IF Len(values) < 2 THEN RatZero
    ELSE LET n == Len(values)
             sum_x == SumTo([i \in 1..n |-> i - 1], n)
             sum_y == SumTo(values, n)
             sum_xy == SumTo([i \in 1..n |-> (i - 1) * values[i]], n)
             sum_x2 == SumTo([i \in 1..n |-> (i - 1) * (i - 1)], n)
         IN  Rat(n * sum_xy - sum_x * sum_y, n * sum_x2 - sum_x * sum_x)

\* TrendOf with the two labels exchanged
TrendOf_Swapped(slope) ==
    IF RatLess(Rat(1, 2), slope) THEN "DOWN"
    ELSE IF RatLess(slope, Rat(-1, 2)) THEN "UP"
    ELSE "FLAT"

\* 'UP' if slope > 0.5 else 'DOWN' if slope < -0.5 else 'FLAT'
TrendOf(slope) ==
    IF RatLess(Rat(1, 2), slope) THEN "UP"
    ELSE IF RatLess(slope, Rat(-1, 2)) THEN "DOWN"
    ELSE "FLAT"

RECURSIVE SelectSeq2(_, _)
SelectSeq2(s, leg) ==
    IF s = <<>> THEN <<>>
    ELSE LET k == IF leg = "CE" THEN Head(s).max_ce.strike ELSE Head(s).max_pe.strike
         IN  (IF Truthy(k) THEN <<k>> ELSE <<>>) \o SelectSeq2(Tail(s), leg)

\* [m['max_ce']['strike'] for m in self.migration_history if m['max_ce']['strike']]
KnownStrikes(history, leg) == SelectSeq2(history, leg)

OverallOf(ce_trend, pe_trend) ==
    IF ce_trend = "DOWN" /\ pe_trend = "UP" THEN "BULLISH"
    ELSE IF ce_trend = "UP" /\ pe_trend = "DOWN" THEN "BEARISH"
    ELSE IF ce_trend = "UP" /\ pe_trend = "UP" THEN "CONSOLIDATION"
    ELSE "NEUTRAL"

\* The dict _track_migration_trend returns for a history of at least 3
\* records; has_overall tells the full dict from the early-return one.
FitTrend(ce_strikes, pe_strikes) ==
    LET ce_fit == Len(ce_strikes) >= MinHistory
        pe_fit == Len(pe_strikes) >= MinHistory
        ce_slope == IF ce_fit THEN CalculateSlope(ce_strikes) ELSE RatZero
        pe_slope == IF pe_fit THEN CalculateSlope(pe_strikes) ELSE RatZero
        ce_trend == IF ce_fit THEN TrendOf(ce_slope) ELSE "NEUTRAL"
        pe_trend == IF pe_fit THEN TrendOf(pe_slope) ELSE "NEUTRAL"
    IN  [has_overall |-> TRUE,
         ce_trend |-> ce_trend, pe_trend |-> pe_trend, velocity |-> 0,
         overall |-> OverallOf(ce_trend, pe_trend),
         ce_slope |-> ce_slope, pe_slope |-> pe_slope,
         divergence |-> IF ce_fit /\ pe_fit
                        THEN RatAbs(RatSub(ce_slope, pe_slope)) ELSE RatZero]

\* return {'ce_trend': 'NEUTRAL', 'pe_trend': 'NEUTRAL', 'velocity': 0}
NeutralTrend ==
    [has_overall |-> FALSE,
     ce_trend |-> "NEUTRAL", pe_trend |-> "NEUTRAL", velocity |-> 0,
     overall |-> "absent", ce_slope |-> RatZero, pe_slope |-> RatZero,
     divergence |-> RatZero]

\* self.migration_history.append(current_max)
AppendRecord(history, rec) == Append(history, rec)

\* EvictOldest with pop() in place of pop(0): the newest record goes
EvictOldest_PopLast(history, period) ==
    IF Len(history) > period THEN SubSeq(history, 1, Len(history) - 1) ELSE history

\* if len(self.migration_history) > self.track_period: self.migration_history.pop(0)
EvictOldest(history, period) ==
    IF Len(history) > period THEN Tail(history) ELSE history

\* the trend computed over the history as it stands after append and evict
TrendOver(history) ==
    IF Len(history) < MinHistory THEN NeutralTrend
    ELSE FitTrend(KnownStrikes(history, "CE"), KnownStrikes(history, "PE"))

DetectExhaustion(current_max, trend) ==
    (IF trend.ce_trend = "FLAT" /\ trend.pe_trend # "FLAT"
        THEN {"CE_MIGRATION_STALL"} ELSE {})
    \cup (IF trend.pe_trend = "FLAT" /\ trend.ce_trend # "FLAT"
        THEN {"PE_MIGRATION_STALL"} ELSE {})
    \cup (IF RatLess(Rat(1, 1), trend.divergence) THEN {"HIGH_DIVERGENCE"} ELSE {})
    \cup (IF current_max.distance < PinDistance THEN {"TIGHT_PINNING"} ELSE {})

\* strength / 2 without the min
AssessTrendStrength_NoClamp(trend) ==
    IF trend.overall \in {"BULLISH", "BEARISH"}
    THEN RatHalf(RatAdd(RatAbs(trend.ce_slope), RatAbs(trend.pe_slope)))
    ELSE IF trend.overall = "CONSOLIDATION"
    THEN RatHalf(RatMin(RatAbs(trend.ce_slope), RatAbs(trend.pe_slope)))
    ELSE RatZero

AssessTrendStrength(trend) ==
    LET strength ==
            IF trend.overall \in {"BULLISH", "BEARISH"}
            THEN RatAdd(RatAbs(trend.ce_slope), RatAbs(trend.pe_slope))
            ELSE IF trend.overall = "CONSOLIDATION"
            THEN RatMin(RatAbs(trend.ce_slope), RatAbs(trend.pe_slope))
            ELSE RatZero
    IN  RatMin(RatHalf(strength), Rat(1, 1))

PredictNextLevel(current_max, trend) ==
    [ce |-> IF trend.ce_trend = "DOWN"
            THEN [set |-> TRUE, strike |-> current_max.max_ce.strike - StrikeStep,
                  direction |-> "DOWN", confidence |-> RatAbs(trend.ce_slope)]
            ELSE [set |-> FALSE, strike |-> 0, direction |-> "", confidence |-> RatZero],
     pe |-> IF trend.pe_trend = "UP"
            THEN [set |-> TRUE, strike |-> current_max.max_pe.strike + StrikeStep,
                  direction |-> "UP", confidence |-> RatAbs(trend.pe_slope)]
            ELSE [set |-> FALSE, strike |-> 0, direction |-> "", confidence |-> RatZero]]

\* What evaluating the dict literal of analyze_migration raises, in the order
\* Python evaluates its values: migration_trend['divergence'] of the
\* three-key early-return dict is a KeyError; None - 50 and None + 50 are
\* TypeErrors.
RaisedBy(current_max, trend) ==
    IF ~trend.has_overall THEN "KeyError"
    ELSE IF trend.ce_trend = "DOWN" /\ current_max.max_ce.strike = NoStrike THEN "TypeError"
    ELSE IF trend.pe_trend = "UP" /\ current_max.max_pe.strike = NoStrike THEN "TypeError"
    ELSE "none"

NoResult ==
    [called |-> FALSE, raised |-> "none", current_max |-> GetMaxOIStrikes(MkChain(0, 0)),
     migration_trend |-> NeutralTrend, exhaustion_signals |-> {},
     trend_strength |-> RatZero]

\* The outcome of analyze_migration: the returned dict, or the exception.
\* migration_trend is kept also when the call raises, as the value
\* _track_migration_trend handed back before the exception.
AnalyzeResult(current_max, trend) ==
    LET raised == RaisedBy(current_max, trend)
    IN  [called |-> TRUE, raised |-> raised, current_max |-> current_max,
         migration_trend |-> trend,
         exhaustion_signals |-> IF raised = "none"
                                THEN DetectExhaustion(current_max, trend) ELSE {},
         trend_strength |-> IF raised = "none"
                            THEN AssessTrendStrength(trend) ELSE RatZero]

\* A record as appended by the call numbered n; the call number is a history
\* variable that tells records of equal content apart.
Tagged(rec, n, who) == [rec |-> rec, call |-> n, by |-> who]

Records(history) == [i \in 1..Len(history) |-> history[i].rec]

-----------------------------------------------------------------------------
(* MagnetDetector._find_local_maxima                                       *)
(*                                                                         *)
(* The strike at ladder position i is i * StrikeStep.  For a window of n   *)
(* values with sum S and sum of squares Q, mean = S/n and the population   *)
(* standard deviation np.std = sqrt(n*Q - S*S)/n, so with D = n*oi - S and *)
(* V = n*Q - S*S:  oi > mean + 2*std  iff  D > 0 and D*D > 4*V, and        *)
(* z_score = D / sqrt(V).  A z_score is kept as the pair (D, V).           *)

\* total_oi[i - w : i + w + 1] around the 1-based position i
WindowOf(oi, i, w) == SubSeq(oi, i - w, i + w)

WindowSum(win) == SumTo(win, Len(win))

WindowSumSq(win) == SumTo([k \in 1..Len(win) |-> win[k] * win[k]], Len(win))

\* n * (current_oi - window_mean)
Deviation(win, cur) == Len(win) * cur - WindowSum(win)

\* (n * window_std) squared
Spread(win) == Len(win) * WindowSumSq(win) - WindowSum(win) * WindowSum(win)

\* the magnet condition with >= in place of >
MagnetCondition_AtLeast(d, v) == d >= 0 /\ d * d >= 4 * v

\* current_oi > window_mean + 2 * window_std
MagnetCondition(d, v) == d > 0 /\ d * d > 4 * v

\* z_score = (current_oi - window_mean) / window_std if window_std > 0 else 0
ZScore(d, v) == IF v > 0 THEN [d |-> d, v |-> v] ELSE [d |-> 0, v |-> 1]

\* a.z_score < b.z_score, for z-scores that are not negative
ZLess(a, b) == a.d * a.d * b.v < b.d * b.d * a.v

ZPositive(z) == z.d > 0 /\ z.v > 0

MagnetAt(oi, i, w) ==
    LET win == WindowOf(oi, i, w)
    IN  [strike |-> i * StrikeStep,
         total_oi |-> oi[i],
         z_score |-> ZScore(Deviation(win, oi[i]), Spread(win)),
         relative_strength |-> IF WindowSum(win) > 0
                               THEN Rat(Len(win) * oi[i], WindowSum(win))
                               ELSE Rat(1, 1)]

RECURSIVE CollectMagnets(_, _, _)
\* the loop for i in range(w, len(strikes) - w), from position i on
CollectMagnets(oi, i, w) ==
    IF i > Len(oi) - w THEN <<>>
    ELSE LET win == WindowOf(oi, i, w)
         IN  (IF MagnetCondition(Deviation(win, oi[i]), Spread(win))
              THEN <<MagnetAt(oi, i, w)>> ELSE <<>>)
             \o CollectMagnets(oi, i + 1, w)

RECURSIVE InsertAscending(_, _)
\* the insertion of a sort that puts the smallest z_score first
InsertAscending(sorted, m) ==
    IF sorted = <<>> THEN <<m>>
    ELSE IF ZLess(m.z_score, Head(sorted).z_score) THEN <<m>> \o sorted
    ELSE <<Head(sorted)>> \o InsertAscending(Tail(sorted), m)

RECURSIVE InsertByZ(_, _)
\* m put into a list sorted by z_score descending, after its equals
InsertByZ(sorted, m) ==
    IF sorted = <<>> THEN <<m>>
    ELSE IF ZLess(Head(sorted).z_score, m.z_score) THEN <<m>> \o sorted
    ELSE <<Head(sorted)>> \o InsertByZ(Tail(sorted), m)

RECURSIVE SortByZ_Ascending(_, _)
\* the sort without reverse=True
SortByZ_Ascending(list, acc) ==
    IF list = <<>> THEN acc
    ELSE SortByZ_Ascending(Tail(list), InsertAscending(acc, Head(list)))

RECURSIVE SortByZ(_, _)
\* sorted(magnets, key=lambda x: x['z_score'], reverse=True): stable
SortByZ(list, acc) ==
    IF list = <<>> THEN acc
    ELSE SortByZ(Tail(list), InsertByZ(acc, Head(list)))

Take(list, n) == SubSeq(list, 1, Min2(n, Len(list)))

FindLocalMaxima(oi, w) ==
    Take(SortByZ(CollectMagnets(oi, w + 1, w), <<>>), TopMagnets)

RECURSIVE InsertByStrike(_, _)
InsertByStrike(sorted, x) ==
    IF sorted = <<>> THEN <<x>>
    ELSE IF x.strike < Head(sorted).strike THEN <<x>> \o sorted
    ELSE <<Head(sorted)>> \o InsertByStrike(Tail(sorted), x)

\* the magnets left in the order of the list
SortByStrike_Unsorted(list, acc) == acc \o list

RECURSIVE SortByStrike(_, _)
\* sorted(magnets, key=lambda x: x['strike'])
SortByStrike(list, acc) ==
    IF list = <<>> THEN acc
    ELSE SortByStrike(Tail(list), InsertByStrike(acc, Head(list)))

\* strikes.index(strike), 1-based: the strike at position i is i * StrikeStep
StrikeIndex(strike) == strike \div StrikeStep

\* total_oi[idx1+1:idx2], empty when idx2 <= idx1 + 1
GapValues(oi, idx1, idx2) == SubSeq(oi, idx1 + 1, idx2 - 1)

\* avg_gap_oi < 0.3 * avg_magnet_oi, with avg_gap_oi = sum/len and
\* avg_magnet_oi = (oi1 + oi2)/2
GapCondition(values, oi1, oi2) ==
    20 * WindowSum(values) < GapTenths * Len(values) * (oi1 + oi2)

RECURSIVE GapsFrom(_, _, _)
\* the loop for i in range(len(sorted_magnets) - 1), from pair i on
GapsFrom(oi, sorted_magnets, i) ==
    IF i > Len(sorted_magnets) - 1 THEN <<>>
    ELSE LET mag1 == sorted_magnets[i]
             mag2 == sorted_magnets[i + 1]
             values == GapValues(oi, StrikeIndex(mag1.strike), StrikeIndex(mag2.strike))
         IN  (IF values # <<>> /\ GapCondition(values, mag1.total_oi, mag2.total_oi)
              THEN <<[from_strike |-> mag1.strike,
                      to_strike |-> mag2.strike,
                      avg_oi |-> Rat(WindowSum(values), Len(values)),
                      oi_ratio |-> Rat(2 * WindowSum(values),
                                       Len(values) * (mag1.total_oi + mag2.total_oi)),
                      strikes_in_gap |-> Len(values)]>>
              ELSE <<>>)
             \o GapsFrom(oi, sorted_magnets, i + 1)

\* _find_low_oi_gaps
FindLowOIGaps(oi, list) == GapsFrom(oi, SortByStrike(list, <<>>), 1)

-----------------------------------------------------------------------------
(* Inputs of the magnet detector *)

ExtraStrikes == 1
MaxSpikes == 7

RECURSIVE Repeat(_, _)
Repeat(x, n) == IF n = 0 THEN <<>> ELSE <<x>> \o Repeat(x, n - 1)

RECURSIVE SpikeBlocks(_, _, _, _, _)
\* spikes j..n, each followed by gap strikes of OI lo; spike j has OI
\* shape[1] + j*shape[2], and the strike right after an odd spike has OI
\* lo + shape[3]
SpikeBlocks(j, n, gap, lo, shape) ==
    IF j > n THEN <<>>
    ELSE <<shape[1] + j * shape[2]>>
         \o <<lo + (j % 2) * shape[3]>> \o Repeat(lo, gap - 1)
         \o SpikeBlocks(j + 1, n, gap, lo, shape)

\* lead strikes of OI lo, then n spikes gap strikes apart
SpikeLadder(lead, n, gap, lo, shape) ==
    Repeat(lo, lead) \o SpikeBlocks(1, n, gap, lo, shape)

\* every ladder of the given length over the given OI values
AllLadders(len, values) == [1..len -> values]

MagnetInputs ==
    {[w |-> DefaultWindow, oi |-> SpikeLadder(lead, n, gap, lo, hs)] :
        lead \in {DefaultWindow, 3 * DefaultWindow + 1}, n \in 0..MaxSpikes,
        gap \in {DefaultWindow - 1, DefaultWindow, DefaultWindow + 1},
        lo \in {0, 1},
        hs \in {<<3, 0, 0>>, <<3, 1, 0>>, <<6, 1, 0>>, <<6, 0, 1>>, <<6, 1, 1>>}}
    \cup {[w |-> DefaultWindow, oi |-> l] :
        l \in UNION {AllLadders(len, {1, 6}) :
                     len \in (2 * DefaultWindow + 1)..(2 * DefaultWindow + 1 + ExtraStrikes)}}
    \cup {[w |-> 3, oi |-> l] :
        l \in UNION {AllLadders(len, {0, 1, 5}) : len \in 7..(7 + ExtraStrikes)}}

NoMagnets == [called |-> FALSE, list |-> <<>>, gaps |-> <<>>]

MagnetIdle ==
    /\ window_size = DefaultWindow
    /\ total_oi = <<>>
    /\ magnets = NoMagnets

-----------------------------------------------------------------------------
(* TimeDecayAnalyzer                                                       *)
(*                                                                         *)
(* A time of day is its number of seconds since midnight.  Normalized      *)
(* session time and every score derived from it are kept in units of       *)
(* 1/SessionSeconds, so that time_into_session is the elapsed seconds and  *)
(* the float k/10 is Tenths(k).                                            *)

HMS(h, m, sec) == h * 3600 + m * 60 + sec

Tenths(k) == (k * SessionSeconds) \div 10

MarketOpen == HMS(9, 15, 0)

\* _get_time_phase with the first interval closed at 10:30
GetTimePhase_ClosedAtEnd(t) ==
    IF HMS(9, 15, 0) <= t /\ t <= HMS(10, 30, 0) THEN "OPENING_PHASE"
    ELSE IF HMS(10, 30, 0) <= t /\ t < HMS(11, 30, 0) THEN "MID_MORNING"
    ELSE IF HMS(11, 30, 0) <= t /\ t < HMS(13, 30, 0) THEN "SELLER_COMFORT_WINDOW"
    ELSE IF HMS(13, 30, 0) <= t /\ t < HMS(14, 30, 0) THEN "POST_LUNCH"
    ELSE IF HMS(14, 30, 0) <= t /\ t <= HMS(15, 30, 0) THEN "GAMMA_GAME_PHASE"
    ELSE "CLOSED"

GetTimePhase(t) ==
    IF HMS(9, 15, 0) <= t /\ t < HMS(10, 30, 0) THEN "OPENING_PHASE"
    ELSE IF HMS(10, 30, 0) <= t /\ t < HMS(11, 30, 0) THEN "MID_MORNING"
    ELSE IF HMS(11, 30, 0) <= t /\ t < HMS(13, 30, 0) THEN "SELLER_COMFORT_WINDOW"
    ELSE IF HMS(13, 30, 0) <= t /\ t < HMS(14, 30, 0) THEN "POST_LUNCH"
    ELSE IF HMS(14, 30, 0) <= t /\ t <= HMS(15, 30, 0) THEN "GAMMA_GAME_PHASE"
    ELSE "CLOSED"

\* min(1.0, max(0, current_seconds - open_seconds) / session_length)
GetTimeIntoSession(t) ==
    Min2(SessionSeconds, IF t - MarketOpen > 0 THEN t - MarketOpen ELSE 0)

AssessSellerAggression(tis) ==
    IF Tenths(4) <= tis /\ tis <= Tenths(7) THEN Tenths(8)
    ELSE IF tis > Tenths(8) THEN Tenths(9)
    ELSE Tenths(5)

RECURSIVE CollectNearby(_, _, _)
\* the loop over chain_data.keys(), from row i on
CollectNearby(chain, spot, i) ==
    IF i > Len(chain) THEN <<>>
    ELSE (IF Abs(chain[i].strike - spot) < PinRadius
             /\ chain[i].ce + chain[i].pe > HighOI
          THEN <<[strike |-> chain[i].strike,
                  total_oi |-> chain[i].ce + chain[i].pe,
                  distance |-> Abs(chain[i].strike - spot)]>>
          ELSE <<>>)
         \o CollectNearby(chain, spot, i + 1)

RECURSIVE InsertByDistance(_, _)
InsertByDistance(sorted, x) ==
    IF sorted = <<>> THEN <<x>>
    ELSE IF x.distance < Head(sorted).distance THEN <<x>> \o sorted
    ELSE <<Head(sorted)>> \o InsertByDistance(Tail(sorted), x)

RECURSIVE SortByDistance(_, _)
\* nearby_strikes.sort(key=lambda x: x['distance']): stable
SortByDistance(list, acc) ==
    IF list = <<>> THEN acc
    ELSE SortByDistance(Tail(list), InsertByDistance(acc, Head(list)))

\* the ramp with the factor 2 left out
PressureRamp_NoFactor(tis) == Min2(Tenths(3) + (tis - Tenths(8)), Tenths(9))

\* min(0.3 + (time_into_session - 0.8) * 2, 0.9)
PressureRamp(tis) == Min2(Tenths(3) + (tis - Tenths(8)) * 2, Tenths(9))

CalculatePinningPressure(chain, spot, tis) ==
    IF tis < Tenths(8)
    THEN [pressure |-> Tenths(3), target_strikes |-> <<>>,
          has_strong_pin |-> FALSE, strong_pin |-> FALSE]
    ELSE LET nearby == SortByDistance(CollectNearby(chain, spot, 1), <<>>)
         IN  IF nearby # <<>>
             THEN [pressure |-> PressureRamp(tis),
                   target_strikes |-> [k \in 1..Min2(MaxTargets, Len(nearby)) |->
                                          nearby[k].strike],
                   has_strong_pin |-> TRUE, strong_pin |-> Len(nearby) >= 2]
             ELSE [pressure |-> Tenths(2), target_strikes |-> <<>>,
                   has_strong_pin |-> FALSE, strong_pin |-> FALSE]

GetBreakoutProbability(tis) ==
    IF tis < Tenths(3) THEN Tenths(8)
    ELSE IF Tenths(4) <= tis /\ tis <= Tenths(7) THEN Tenths(4)
    ELSE IF tis > Tenths(8) THEN Tenths(6)
    ELSE Tenths(5)

AssessGammaRisk(t) ==
    IF HMS(14, 30, 0) <= t /\ t <= HMS(15, 30, 0) THEN Tenths(8)
    ELSE IF HMS(9, 15, 0) <= t /\ t < HMS(10, 30, 0) THEN Tenths(7)
    ELSE Tenths(4)

AnalyzeTimePressure(chain, spot, t) ==
    LET tis == GetTimeIntoSession(t)
    IN  [called |-> TRUE,
         time_into_session |-> tis,
         time_phase |-> GetTimePhase(t),
         seller_aggression |-> AssessSellerAggression(tis),
         pinning_pressure |-> CalculatePinningPressure(chain, spot, tis),
         breakout_probability |-> GetBreakoutProbability(tis),
         gamma_risk |-> AssessGammaRisk(t)]

-----------------------------------------------------------------------------
(* Inputs of the time-decay analyzer *)

\* times of day: every multiple of TimeGrid seconds, the second before and
\* the second after it (all interval ends of the analyzer are multiples)
TimeGrid == HMS(0, 7, 30)

Times == {t \in 0..(HMS(24, 0, 0) - 1) : t % TimeGrid \in {0, 1, TimeGrid - 1}}

PinChains ==
    {<<[strike |-> 100, ce |-> a[1], pe |-> a[2]],
       [strike |-> 250, ce |-> b, pe |-> b]>> :
        a \in {0, 500000, 1000001} \X {0, 500000}, b \in {0, 600000}}

PinSpots == {100, 160, 349, 350}

NoPressure ==
    [called |-> FALSE, time_into_session |-> 0, time_phase |-> "CLOSED",
     seller_aggression |-> 0,
     pinning_pressure |-> [pressure |-> 0, target_strikes |-> <<>>,
                           has_strong_pin |-> FALSE, strong_pin |-> FALSE],
     breakout_probability |-> 0, gamma_risk |-> 0]

TimeIdle ==
    /\ current_time = 0
    /\ pin_chain = <<>>
    /\ spot_price = 0
    /\ pressure = NoPressure

-----------------------------------------------------------------------------
(* IVSkewEnhanced: _calculate_iv_gradient, _analyze_magnet_skew,           *)
(* _find_iv_crush_pockets and _identify_fear_zones                         *)
(*                                                                         *)
(* A chain is the sequence of its rows in strike order (every sub-analysis *)
(* works on sorted(chain_data.keys())).  A row tells for each leg whether  *)
(* the key is in the dict and, if so, its IV; IVs are whole numbers of     *)
(* volatility points.                                                      *)

\* chain_data[strike].get('CE', {}).get('IV', 0)
CeIV(row) == IF row.has_ce THEN row.ce_iv ELSE 0

PeIV(row) == IF row.has_pe THEN row.pe_iv ELSE 0

SeqSum(list) == SumTo(list, Len(list))

SeqSumSq(list) == SumTo([k \in 1..Len(list) |-> list[k] * list[k]], Len(list))

RECURSIVE IndexOfStrike(_, _, _)
\* strikes.index(strike), 1-based; 0 when the strike is not in the chain
IndexOfStrike(chain, strike, i) ==
    IF i > Len(chain) THEN 0
    ELSE IF chain[i].strike = strike THEN i
    ELSE IndexOfStrike(chain, strike, i + 1)

RECURSIVE NearestIndex(_, _, _, _)
\* min(strikes, key=lambda x: abs(x - spot_price)): the first of the nearest
NearestIndex(chain, spot, i, best) ==
    IF i > Len(chain) THEN best
    ELSE NearestIndex(chain, spot, i + 1,
                      IF Abs(chain[i].strike - spot) < Abs(chain[best].strike - spot)
                      THEN i ELSE best)

AtmIndex(chain, spot) == NearestIndex(chain, spot, 1, 1)

Max2(a, b) == IF a > b THEN a ELSE b

RECURSIVE PresentIVs(_, _, _, _)
\* the IVs (0 included) of the legs of one side that are present, over the
\* rows lo..hi except row skip
PresentIVs(chain, leg, idxs, skip) ==
    IF idxs = <<>> THEN <<>>
    ELSE LET i == Head(idxs)
             row == chain[i]
         IN  (IF i # skip /\ (IF leg = "CE" THEN row.has_ce ELSE row.has_pe)
              THEN <<IF leg = "CE" THEN row.ce_iv ELSE row.pe_iv>> ELSE <<>>)
             \o PresentIVs(chain, leg, Tail(idxs), skip)

RECURSIVE PositiveIVs(_, _, _, _)
\* the IVs above 0 of one side over the rows idxs except row skip
PositiveIVs(chain, leg, idxs, skip) ==
    IF idxs = <<>> THEN <<>>
    ELSE LET i == Head(idxs)
             iv == IF leg = "CE" THEN CeIV(chain[i]) ELSE PeIV(chain[i])
         IN  (IF i # skip /\ iv > 0 THEN <<iv>> ELSE <<>>)
             \o PositiveIVs(chain, leg, Tail(idxs), skip)

RECURSIVE PooledPositiveIVs(_, _)
\* per row of the window its call IV, if above 0, then its put IV, if above 0
PooledPositiveIVs(chain, idxs) ==
    IF idxs = <<>> THEN <<>>
    ELSE LET row == chain[Head(idxs)]
         IN  (IF CeIV(row) > 0 THEN <<CeIV(row)>> ELSE <<>>)
             \o (IF PeIV(row) > 0 THEN <<PeIV(row)>> ELSE <<>>)
             \o PooledPositiveIVs(chain, Tail(idxs))

\* the positions lo..hi as a list
Range(lo, hi) == [k \in 1..Max2(0, hi - lo + 1) |-> lo + k - 1]

\* _calculate_iv_gradient.  np.gradient raises ValueError on a list of one
\* element and returns an array otherwise, and the truth test of an array of
\* two or more elements ("if left_gradient") raises ValueError: the call
\* returns only when both IV lists are empty, and then with all three values 0.
CalculateIVGradient(chain, atm) ==
    LET left_ivs == PresentIVs(chain, "CE", Range(Max2(1, atm - 5), atm - 1), 0)
        right_ivs == PresentIVs(chain, "PE", Range(atm + 1, Min2(Len(chain), atm + 5)), 0)
    IN  IF left_ivs # <<>> \/ right_ivs # <<>>
        THEN [raised |-> "ValueError", left_steepness |-> RatZero,
              right_steepness |-> RatZero, asymmetry |-> RatZero]
        ELSE [raised |-> "none", left_steepness |-> RatZero,
              right_steepness |-> RatZero, asymmetry |-> RatZero]

\* magnet_iv / avg_surrounding if avg_surrounding > 0 else 1
IVRatio(magnet_iv, surrounding) ==
    IF SeqSum(surrounding) > 0
    THEN Rat(magnet_iv * Len(surrounding), SeqSum(surrounding))
    ELSE Rat(1, 1)

\* magnet_iv < avg_surrounding * 0.9, the average of no values being 0
BelowNineTenths(magnet_iv, surrounding) ==
    IF surrounding = <<>> THEN magnet_iv < 0
    ELSE 10 * magnet_iv * Len(surrounding) < 9 * SeqSum(surrounding)

MagnetSkewAt(chain, idx) ==
    LET around == Range(Max2(1, idx - 2), Min2(Len(chain), idx + 2))
        surrounding_ce_iv == PresentIVs(chain, "CE", around, idx)
        surrounding_pe_iv == PresentIVs(chain, "PE", around, idx)
        magnet_ce_iv == CeIV(chain[idx])
        magnet_pe_iv == PeIV(chain[idx])
    IN  [ce_iv_ratio |-> IVRatio(magnet_ce_iv, surrounding_ce_iv),
         pe_iv_ratio |-> IVRatio(magnet_pe_iv, surrounding_pe_iv),
         iv_stability |-> IF BelowNineTenths(magnet_ce_iv, surrounding_ce_iv)
                             /\ BelowNineTenths(magnet_pe_iv, surrounding_pe_iv)
                          THEN "STABLE" ELSE "VOLATILE"]

\* _analyze_magnet_skew: the dict keyed by the magnets that are in the chain
AnalyzeMagnetSkew(chain, magnet_strikes) ==
    LET present == {m \in {magnet_strikes[k] : k \in 1..Len(magnet_strikes)} :
                        IndexOfStrike(chain, m, 1) # 0}
    IN  [m \in present |-> MagnetSkewAt(chain, IndexOfStrike(chain, m, 1))]

RECURSIVE CrushPocketsFrom(_, _)
\* the loop for i in range(2, len(strikes) - 2), from position i on
CrushPocketsFrom(chain, i) ==
    IF i > Len(chain) - 2 THEN <<>>
    ELSE LET window_ivs == PooledPositiveIVs(chain, Range(i - 2, i + 2))
             n == Len(window_ivs)
             sum == SeqSum(window_ivs)
             spread == n * SeqSumSq(window_ivs) - sum * sum
             ce == CeIV(chain[i])
             pe == PeIV(chain[i])
             \* iv < window_avg - window_std
             Crushed(iv) == sum - n * iv > 0 /\ (sum - n * iv) * (sum - n * iv) > spread
         IN  (IF window_ivs # <<>> /\ Crushed(ce) /\ Crushed(pe)
              THEN <<[strike |-> chain[i].strike, ce_iv |-> ce, pe_iv |-> pe,
                      window_avg |-> Rat(sum, n),
                      z_score |-> IF spread > 0 THEN [d |-> n * ce - sum, v |-> spread]
                                  ELSE [d |-> 0, v |-> 1],
                      crush_strength |-> Rat(sum - n * ce, sum)]>>
              ELSE <<>>)
             \o CrushPocketsFrom(chain, i + 1)

FindIVCrushPockets(chain) == CrushPocketsFrom(chain, 3)

RatMax(a, b) == IF RatLess(a, b) THEN b ELSE a

RECURSIVE FearZonesFrom(_, _, _, _)
\* the loop for i in range(max(0, atm_idx-5), min(len(strikes), atm_idx+6))
FearZonesFrom(chain, spot, i, last) ==
    IF i > last THEN <<>>
    ELSE LET around == Range(Max2(1, i - 2), Min2(Len(chain), i + 2))
             local_ce_ivs == PositiveIVs(chain, "CE", around, i)
             local_pe_ivs == PositiveIVs(chain, "PE", around, i)
             ce == CeIV(chain[i])
             pe == PeIV(chain[i])
             avg_ce == Rat(SeqSum(local_ce_ivs), Len(local_ce_ivs))
             avg_pe == Rat(SeqSum(local_pe_ivs), Len(local_pe_ivs))
             \* iv > avg * 1.3
             Spike(iv, avg) == 10 * iv * avg.den > 13 * avg.num
             zone(kind, iv, avg) ==
                 [strike |-> chain[i].strike, fear_type |-> kind,
                  strength |-> Rat(iv * avg.den - avg.num, avg.num),
                  current_iv |-> Max2(ce, pe),
                  local_avg |-> RatMax(avg_ce, avg_pe),
                  side |-> IF chain[i].strike > spot THEN "above" ELSE "below"]
         IN  (IF local_ce_ivs # <<>> /\ local_pe_ivs # <<>>
              THEN IF Spike(ce, avg_ce) THEN <<zone("CE_FEAR", ce, avg_ce)>>
                   ELSE IF Spike(pe, avg_pe) THEN <<zone("PE_FEAR", pe, avg_pe)>>
                   ELSE <<>>
              ELSE <<>>)
             \o FearZonesFrom(chain, spot, i + 1, last)

\* _identify_fear_zones; each zone carries the list ('above' or 'below') it
\* was appended to
IdentifyFearZones(chain, spot) ==
    LET atm == AtmIndex(chain, spot)
    IN  FearZonesFrom(chain, spot, Max2(1, atm - 5), Min2(Len(chain), atm + 5))

\* the four sub-analyses on one chain, the ATM strike being the strike
\* nearest the spot
SkewSubAnalyses(chain, spot, magnet_strikes) ==
    [called |-> TRUE,
     iv_gradient |-> CalculateIVGradient(chain, AtmIndex(chain, spot)),
     magnet_skew |-> AnalyzeMagnetSkew(chain, magnet_strikes),
     iv_crush_pockets |-> FindIVCrushPockets(chain),
     fear_zones |-> IdentifyFearZones(chain, spot)]

-----------------------------------------------------------------------------
(* Inputs of the skew analyzer: chains of five strikes *)

SkewStrikes == <<100, 150, 200, 250, 300>>

SkewRows ==
    {[has_ce |-> TRUE, ce_iv |-> 10, has_pe |-> TRUE, pe_iv |-> 10],
     [has_ce |-> TRUE, ce_iv |-> 20, has_pe |-> TRUE, pe_iv |-> 30],
     [has_ce |-> FALSE, ce_iv |-> 0, has_pe |-> TRUE, pe_iv |-> 10],
     [has_ce |-> TRUE, ce_iv |-> 10, has_pe |-> FALSE, pe_iv |-> 0]}

SkewChains ==
    {[i \in 1..Len(SkewStrikes) |->
         [strike |-> SkewStrikes[i], has_ce |-> rows[i].has_ce, ce_iv |-> rows[i].ce_iv,
          has_pe |-> rows[i].has_pe, pe_iv |-> rows[i].pe_iv]] :
        rows \in [1..Len(SkewStrikes) -> SkewRows]}

SkewSpots == {110, 200}

NoSkew ==
    [called |-> FALSE,
     iv_gradient |-> [raised |-> "none", left_steepness |-> RatZero,
                      right_steepness |-> RatZero, asymmetry |-> RatZero],
     magnet_skew |-> <<>>, iv_crush_pockets |-> <<>>, fear_zones |-> <<>>]

SkewIdle ==
    /\ skew_chain = <<>>
    /\ skew_spot = 0
    /\ skew_magnets = <<>>
    /\ skew_out = NoSkew
    /\ skew_prev = NoSkew

-----------------------------------------------------------------------------
(* ExpiryAlignmentAnalyzer._identify_supports and _identify_resistances    *)
(*                                                                         *)
(* A chain is the sequence of its rows in dict iteration order; ce and pe  *)
(* are the open interest of the two legs (0 for a leg that is missing).    *)
(* Open interest keeps its real magnitude here, so two quotients are       *)
(* compared by their continued fractions, which never multiplies them.     *)

RECURSIVE FracLess(_, _, _, _)
\* a/b < c/d for a, c >= 0 and b, d > 0
FracLess(a, b, c, d) ==
    IF a \div b # c \div d THEN a \div b < c \div d
    ELSE IF c % d = 0 THEN FALSE
    ELSE IF a % b = 0 THEN TRUE
    ELSE FracLess(d, c % d, b, a % b)

\* x.strength < y.strength
WeakerThan(x, y) == FracLess(x.strength.num, x.strength.den, y.strength.num, y.strength.den)

\* dominant / (other + 1) / 5, the quotient without the min
LevelStrength_NoClamp(dominant, other) == Rat(dominant, StrengthCap * (other + 1))

\* min(dominant / (other + 1), 5) / 5
LevelStrength(dominant, other) ==
    IF dominant >= StrengthCap * (other + 1) THEN Rat(1, 1)
    ELSE Rat(dominant, StrengthCap * (other + 1))

\* pe_oi > ce_oi * 1.5 and pe_oi > 100000 (legs swapped for a resistance)
IsLevel(dominant, other) == 2 * dominant > 3 * other /\ dominant > LevelFloor

RECURSIVE CollectSupports(_, _)
CollectSupports(chain, i) ==
    IF i > Len(chain) THEN <<>>
    ELSE (IF IsLevel(chain[i].pe, chain[i].ce)
          THEN <<[strike |-> chain[i].strike,
                  strength |-> LevelStrength(chain[i].pe, chain[i].ce),
                  pe_oi |-> chain[i].pe, ce_oi |-> chain[i].ce]>>
          ELSE <<>>)
         \o CollectSupports(chain, i + 1)

RECURSIVE CollectResistances(_, _)
CollectResistances(chain, i) ==
    IF i > Len(chain) THEN <<>>
    ELSE (IF IsLevel(chain[i].ce, chain[i].pe)
          THEN <<[strike |-> chain[i].strike,
                  strength |-> LevelStrength(chain[i].ce, chain[i].pe),
                  pe_oi |-> chain[i].pe, ce_oi |-> chain[i].ce]>>
          ELSE <<>>)
         \o CollectResistances(chain, i + 1)

RECURSIVE InsertWeakestFirst(_, _)
InsertWeakestFirst(sorted, x) ==
    IF sorted = <<>> THEN <<x>>
    ELSE IF WeakerThan(x, Head(sorted)) THEN <<x>> \o sorted
    ELSE <<Head(sorted)>> \o InsertWeakestFirst(Tail(sorted), x)

RECURSIVE InsertByStrength(_, _)
\* x put into a list sorted by strength descending, after its equals
InsertByStrength(sorted, x) ==
    IF sorted = <<>> THEN <<x>>
    ELSE IF WeakerThan(Head(sorted), x) THEN <<x>> \o sorted
    ELSE <<Head(sorted)>> \o InsertByStrength(Tail(sorted), x)

RECURSIVE SortByStrength_Ascending(_, _)
\* the sort without reverse=True
SortByStrength_Ascending(list, acc) ==
    IF list = <<>> THEN acc
    ELSE SortByStrength_Ascending(Tail(list), InsertWeakestFirst(acc, Head(list)))

RECURSIVE SortByStrength(_, _)
\* sorted(levels, key=lambda x: x['strength'], reverse=True): stable
SortByStrength(list, acc) ==
    IF list = <<>> THEN acc
    ELSE SortByStrength(Tail(list), InsertByStrength(acc, Head(list)))

IdentifySupports(chain) ==
    Take(SortByStrength(CollectSupports(chain, 1), <<>>), TopLevels)

IdentifyResistances(chain) ==
    Take(SortByStrength(CollectResistances(chain, 1), <<>>), TopLevels)

-----------------------------------------------------------------------------
(* Inputs of the level detector *)

LevelStrikes == 6

\* the (call OI, put OI) pairs a strike may carry
LevelLegs ==
    {<<50000, 200000>>, <<0, 150000>>, <<90000, 90000>>,
     <<200000, 50000>>, <<100000, 150000>>}

\* strike 20000 is the third of the ladder
LevelChains ==
    {[i \in 1..LevelStrikes |->
         [strike |-> 19850 + i * StrikeStep, ce |-> legs[i][1], pe |-> legs[i][2]]] :
        legs \in [1..LevelStrikes -> LevelLegs]}

NoLevels == [called |-> FALSE, supports |-> <<>>, resistances |-> <<>>]

LevelIdle ==
    /\ level_chain = <<>>
    /\ levels = NoLevels

-----------------------------------------------------------------------------
(* ExpiryAlignmentAnalyzer.analyze_alignment                               *)
(*                                                                         *)
(* Quotients are kept in lowest terms so that sums of them stay small.     *)

RECURSIVE GCD(_, _)
GCD(a, b) == IF b = 0 THEN a ELSE GCD(b, a % b)

\* n/d in lowest terms, for n >= 0 and d > 0
Lowest(n, d) == Rat(n \div GCD(n, d), d \div GCD(n, d))

\* a + b in lowest terms
LowestSum(a, b) == Lowest(a.num * b.den + b.num * a.den, a.den * b.den)

RECURSIVE SumOfQuotients(_)
SumOfQuotients(list) ==
    IF list = <<>> THEN RatZero ELSE LowestSum(Head(list), SumOfQuotients(Tail(list)))

\* np.mean of a non-empty list of quotients
MeanOfQuotients(list) ==
    Lowest(SumOfQuotients(list).num, SumOfQuotients(list).den * Len(list))

\* min(a['strength'], b['strength']): the second only when it is smaller
WeakerStrength(a, b) == IF WeakerThan(b, a) THEN b.strength ELSE a.strength

\* strength > 0.7
IsStrong(strength) == 10 * strength.num > StrongTenths * strength.den

RECURSIVE CollectAlignMagnets(_, _)
CollectAlignMagnets(chain, i) ==
    IF i > Len(chain) THEN <<>>
    ELSE (IF chain[i].ce + chain[i].pe > MagnetFloor
          THEN <<[strike |-> chain[i].strike,
                  total_oi |-> chain[i].ce + chain[i].pe,
                  confidence |->
                      IF chain[i].ce + chain[i].pe >= FullConfidence THEN Rat(1, 1)
                      ELSE Lowest(chain[i].ce + chain[i].pe, FullConfidence)]>>
          ELSE <<>>)
         \o CollectAlignMagnets(chain, i + 1)

RECURSIVE InsertByTotalOI(_, _)
\* x put into a list sorted by total_oi descending, after its equals
InsertByTotalOI(sorted, x) ==
    IF sorted = <<>> THEN <<x>>
    ELSE IF Head(sorted).total_oi < x.total_oi THEN <<x>> \o sorted
    ELSE <<Head(sorted)>> \o InsertByTotalOI(Tail(sorted), x)

RECURSIVE SortByTotalOI(_, _)
SortByTotalOI(list, acc) ==
    IF list = <<>> THEN acc
    ELSE SortByTotalOI(Tail(list), InsertByTotalOI(acc, Head(list)))

\* _identify_magnets
IdentifyMagnets(chain) ==
    Take(SortByTotalOI(CollectAlignMagnets(chain, 1), <<>>), TopAlignMagnets)

\* a match whatever the distance
WithinTolerance_Always(c, n) == c.strike = c.strike

\* abs(c['strike'] - n['strike']) <= 50
WithinTolerance(c, n) == Abs(c.strike - n.strike) <= AlignTolerance

\* the entry appended for a near level cs and a far level ns within tolerance
AlignedLevel(cs, ns) ==
    [strike |-> cs.strike,
     current_strength |-> cs.strength,
     next_strength |-> ns.strength,
     alignment_score |-> WeakerStrength(cs, ns),
     type |-> IF IsStrong(ns.strength) THEN "SWING_ANCHOR" ELSE "GAMMA_ONLY"]

AlignedMagnet(cm, nm) ==
    [strike |-> cm.strike,
     current_strength |-> cm.total_oi,
     next_strength |-> nm.total_oi,
     alignment_ratio |-> Lowest(Min2(cm.total_oi, nm.total_oi), Max2(cm.total_oi, nm.total_oi)),
     confidence |-> IF RatLess(nm.confidence, cm.confidence)
                    THEN nm.confidence ELSE cm.confidence]

RECURSIVE InnerLoop(_, _, _)
\* for n in next_levels: if within tolerance: append
InnerLoop(c, nexts, kind) ==
    IF nexts = <<>> THEN <<>>
    ELSE (IF WithinTolerance(c, Head(nexts))
          THEN <<IF kind = "magnet" THEN AlignedMagnet(c, Head(nexts))
                 ELSE AlignedLevel(c, Head(nexts))>>
          ELSE <<>>)
         \o InnerLoop(c, Tail(nexts), kind)

RECURSIVE OuterLoop(_, _, _)
\* for c in current_levels: for n in next_levels: ...
OuterLoop(currents, nexts, kind) ==
    IF currents = <<>> THEN <<>>
    ELSE InnerLoop(Head(currents), nexts, kind) \o OuterLoop(Tail(currents), nexts, kind)

RECURSIVE CountStrong(_)
\* len([s for s in aligned if s['type'] == 'SWING_ANCHOR'])
CountStrong(aligned) ==
    IF aligned = <<>> THEN 0
    ELSE (IF Head(aligned).type = "SWING_ANCHOR" THEN 1 ELSE 0) + CountStrong(Tail(aligned))

LevelAlignment(currents, nexts) ==
    LET aligned == OuterLoop(currents, nexts, "level")
    IN  [aligned |-> aligned,
         alignment_count |-> Len(aligned),
         strong_anchor_count |-> CountStrong(aligned)]

\* _analyze_support_alignment
AnalyzeSupportAlignment(current, next_exp) ==
    LevelAlignment(IdentifySupports(current), IdentifySupports(next_exp))

\* _analyze_resistance_alignment
AnalyzeResistanceAlignment(current, next_exp) ==
    LevelAlignment(IdentifyResistances(current), IdentifyResistances(next_exp))

\* _analyze_magnet_alignment
AnalyzeMagnetAlignment(current, next_exp) ==
    LET aligned == OuterLoop(IdentifyMagnets(current), IdentifyMagnets(next_exp), "magnet")
    IN  [aligned |-> aligned,
         alignment_count |-> Len(aligned),
         average_alignment_ratio |->
             IF aligned = <<>> THEN RatZero
             ELSE MeanOfQuotients([k \in 1..Len(aligned) |-> aligned[k].alignment_ratio])]

\* the scores list of _calculate_alignment_score, term by term
ScoreTerms_AlwaysThree(sup, res, mag) ==
    <<Lowest(sup.strong_anchor_count, Max2(Len(sup.aligned), 1)),
      Lowest(res.strong_anchor_count, Max2(Len(res.aligned), 1)),
      mag.average_alignment_ratio>>

ScoreTerms(sup, res, mag) ==
    (IF sup.aligned # <<>>
     THEN <<Lowest(sup.strong_anchor_count, Max2(Len(sup.aligned), 1))>> ELSE <<>>)
    \o (IF res.aligned # <<>>
        THEN <<Lowest(res.strong_anchor_count, Max2(Len(res.aligned), 1))>> ELSE <<>>)
    \o (IF mag.aligned # <<>> THEN <<mag.average_alignment_ratio>> ELSE <<>>)

\* _calculate_alignment_score
CalculateAlignmentScore(current, next_exp) ==
    LET scores == ScoreTerms(AnalyzeSupportAlignment(current, next_exp),
                             AnalyzeResistanceAlignment(current, next_exp),
                             AnalyzeMagnetAlignment(current, next_exp))
    IN  IF scores # <<>> THEN MeanOfQuotients(scores) ELSE RatZero

RECURSIVE ClassifySupports(_, _, _)
\* the loop of _assess_gamma_vs_swing; anchors tells which of the two lists
ClassifySupports(currents, nexts, anchors) ==
    IF currents = <<>> THEN <<>>
    ELSE LET cs == Head(currents)
             exists_in_next == \E k \in 1..Len(nexts) : WithinTolerance(cs, nexts[k])
         IN  (IF exists_in_next = anchors
              THEN <<[strike |-> cs.strike, strength |-> cs.strength,
                      type |-> IF anchors THEN "SWING_ANCHOR" ELSE "GAMMA_GAME"]>>
              ELSE <<>>)
             \o ClassifySupports(Tail(currents), nexts, anchors)

\* _assess_gamma_vs_swing
AssessGammaVsSwing(current, next_exp) ==
    LET current_supports == IdentifySupports(current)
        next_supports == IdentifySupports(next_exp)
        gamma_only == ClassifySupports(current_supports, next_supports, FALSE)
        swing_anchors == ClassifySupports(current_supports, next_supports, TRUE)
    IN  [gamma_only_levels |-> gamma_only,
         swing_anchor_levels |-> swing_anchors,
         gamma_game_ratio |-> Lowest(Len(gamma_only), Max2(Len(current_supports), 1)),
         swing_anchor_ratio |-> Lowest(Len(swing_anchors), Max2(Len(current_supports), 1)),
         trading_implication |->
             IF Len(swing_anchors) > Len(gamma_only) THEN "TRUST_LEVELS" ELSE "FADE_LEVELS"]

\* analyze_alignment
AnalyzeAlignmentResult(current, next_exp) ==
    [called |-> TRUE,
     support_alignment |-> AnalyzeSupportAlignment(current, next_exp),
     resistance_alignment |-> AnalyzeResistanceAlignment(current, next_exp),
     magnet_alignment |-> AnalyzeMagnetAlignment(current, next_exp),
     overall_alignment_score |-> CalculateAlignmentScore(current, next_exp),
     gamma_vs_swing |-> AssessGammaVsSwing(current, next_exp)]

-----------------------------------------------------------------------------
(* Inputs of the alignment analyzer: two chains over one ladder with       *)
(* 50-point spacing and one strike further away                            *)

AlignStrikes == <<20000, 20050, 20200>>

\* (call OI, put OI): a support at the cap, a support of strength exactly
\* 0.7, their two mirror images, a row that is no level, a magnet that is no
\* level, and a magnet that is also a support
AlignLegs ==
    {<<0, 150000>>, <<39999, 140000>>, <<150000, 0>>, <<140000, 39999>>,
     <<90000, 90000>>, <<1500000, 1500000>>, <<0, 2500000>>}

AlignChains ==
    {[i \in 1..Len(AlignStrikes) |->
         [strike |-> AlignStrikes[i], ce |-> legs[i][1], pe |-> legs[i][2]]] :
        legs \in [1..Len(AlignStrikes) -> AlignLegs]}

NoAlignment == [called |-> FALSE]

AlignIdle ==
    /\ align_near = <<>>
    /\ align_far = <<>>
    /\ alignment = NoAlignment

-----------------------------------------------------------------------------
(* history_manager: save_snapshot and last_n over the stored history       *)

\* h[-k:] for k > 0: the last k elements, all of h when it is shorter
LastElements(h, k) == SubSeq(h, Max2(1, Len(h) - k + 1), Len(h))

\* h[-n:] for n >= 0; -0 is 0, so h[-0:] is h[0:], the whole list
NegativeSlice(h, n) == IF n = 0 THEN h ELSE LastElements(h, n)

\* history.append(snapshot); history = history[-MAX_HISTORY:]
SavedHistory(h, snapshot) == NegativeSlice(Append(h, snapshot), MAX_HISTORY)

\* last_n(n)
LastN(h, n) == NegativeSlice(h, n)

NothingReturned == [op |-> "none", n |-> 0, list |-> <<>>]

HistoryIdle ==
    /\ history_file = <<>>
    /\ saved = 0
    /\ returned = NothingReturned

-----------------------------------------------------------------------------
(* Inputs of the trend fit: the strike lists a history of 3 or 4 records   *)
(* can give, over strikes one point apart so that slopes fall on both      *)
(* sides of 0.5, with two steep series and one leg known in 2 records only *)

FineStrikes == {100, 101, 102}

StrikeSeries ==
    UNION {[1..len -> FineStrikes] : len \in MinHistory..MaxTrackPeriod}
    \cup {<<100, 150, 200>>, <<200, 150, 100>>, <<100, 102>>}

NoFit == [called |-> FALSE, trend |-> NeutralTrend, trend_strength |-> RatZero]

FitIdle ==
    /\ fit_ce = <<>>
    /\ fit_pe = <<>>
    /\ fit = NoFit

-----------------------------------------------------------------------------
(* Inputs of _calculate_slope: every series of up to MaxSeriesLen strikes  *)

SlopeStrikes == {100, 150, 200}

SlopeSeries == UNION {[1..len -> SlopeStrikes] : len \in 0..MaxSeriesLen}

NoSlope == [called |-> FALSE, slope |-> RatZero, trend |-> "NEUTRAL"]

SlopeIdle ==
    /\ slope_values = <<>>
    /\ slope_out = NoSlope

-----------------------------------------------------------------------------
(* Sequential use of one tracker *)

Threads == {1, 2}

Idle == [t \in Threads |-> [pc |-> "idle", rec |-> Tagged(NoResult.current_max, 0, 0),
                            view |-> <<>>, trend |-> NeutralTrend, done |-> 0]]

TrackerIdle ==
    /\ track_period = MinHistory
    /\ migration_history = <<>>
    /\ calls = 0
    /\ result = NoResult
    /\ threads = Idle

TrackerInit ==
    /\ track_period \in MinHistory..MaxTrackPeriod
    /\ migration_history = <<>>
    /\ calls = 0
    /\ result = NoResult
    /\ threads = Idle

Init == TrackerInit /\ MagnetIdle /\ TimeIdle /\ SkewIdle /\ LevelIdle /\ AlignIdle /\ HistoryIdle /\ FitIdle /\ SlopeIdle

\* analyze_migration(chain_data, spot_price), start to finish
AnalyzeMigration(chain) ==
    /\ calls < MaxCalls
    /\ LET current_max == GetMaxOIStrikes(chain)
           h == EvictOldest(AppendRecord(migration_history,
                                         Tagged(current_max, calls + 1, 0)),
                            track_period)
       IN  /\ migration_history' = h
           /\ result' = AnalyzeResult(current_max, TrendOver(Records(h)))
    /\ calls' = calls + 1
    /\ UNCHANGED <<track_period, threads>>

Next ==
    (\E chain \in Chains : AnalyzeMigration(chain)) /\ UNCHANGED <<magnetVars, timeVars, skewVars, levelVars, alignVars, historyVars, fitVars, slopeVars>>

Spec == Init /\ [][Next]_vars

-----------------------------------------------------------------------------
(* Two callers on one tracker, no lock: analyze_migration step by step.    *)
(* Each step is one call on the shared list (append, len, pop) or one list *)
(* comprehension over it, which is the coarsest interleaving the           *)
(* interpreter allows; the code takes no lock anywhere.                    *)

MaxThreadCalls == 2

ConcChains == {MkChain(4, 1), MkChain(3, 2), MkChain(0, 0)}

InitConc == TrackerInit /\ MagnetIdle /\ TimeIdle /\ SkewIdle /\ LevelIdle /\ AlignIdle /\ HistoryIdle /\ FitIdle /\ SlopeIdle

\* line 14: current_max = self._get_max_oi_strikes(chain_data)
ThreadCall(t, chain) ==
    /\ threads[t].pc = "idle"
    /\ threads[t].done < MaxThreadCalls
    /\ threads' = [threads EXCEPT ![t].pc = "append",
                                  ![t].rec = Tagged(GetMaxOIStrikes(chain), 0, t),
                                  ![t].view = <<>>]
    /\ UNCHANGED <<track_period, migration_history, calls, result>>

\* line 54: self.migration_history.append(current_max)
ThreadAppend(t) ==
    /\ threads[t].pc = "append"
    /\ LET rec == Tagged(threads[t].rec.rec, calls + 1, t)
       IN  /\ migration_history' = AppendRecord(migration_history, rec)
           /\ threads' = [threads EXCEPT ![t].pc = "check", ![t].rec = rec]
    /\ calls' = calls + 1
    /\ UNCHANGED <<track_period, result>>

\* line 56: if len(self.migration_history) > self.track_period
ThreadCheck(t) ==
    /\ threads[t].pc = "check"
    /\ threads' = [threads EXCEPT ![t].pc =
                       IF Len(migration_history) > track_period THEN "pop" ELSE "guard"]
    /\ UNCHANGED <<track_period, migration_history, calls, result>>

\* line 57: self.migration_history.pop(0)
ThreadPop(t) ==
    /\ threads[t].pc = "pop"
    /\ migration_history' = Tail(migration_history)
    /\ threads' = [threads EXCEPT ![t].pc = "guard"]
    /\ UNCHANGED <<track_period, calls, result>>

\* line 59: if len(self.migration_history) < 3: return the neutral dict
ThreadGuard(t) ==
    /\ threads[t].pc = "guard"
    /\ threads' = [threads EXCEPT
           ![t].pc = IF Len(migration_history) < MinHistory THEN "idle" ELSE "fit_ce",
           ![t].trend = NeutralTrend,
           ![t].done = IF Len(migration_history) < MinHistory THEN @ + 1 ELSE @]
    /\ UNCHANGED <<track_period, migration_history, calls, result>>

\* line 63: ce_strikes = [... for m in self.migration_history ...]
ThreadFitCE(t) ==
    /\ threads[t].pc = "fit_ce"
    /\ threads' = [threads EXCEPT ![t].pc = "fit_pe", ![t].view = migration_history]
    /\ UNCHANGED <<track_period, migration_history, calls, result>>

\* line 71: pe_strikes = [... for m in self.migration_history ...], then the
\* rest of the call, which reads no shared state
ThreadFitPE(t) ==
    /\ threads[t].pc = "fit_pe"
    /\ threads' = [threads EXCEPT
           ![t].pc = "idle",
           ![t].trend = FitTrend(KnownStrikes(Records(threads[t].view), "CE"),
                                 KnownStrikes(Records(migration_history), "PE")),
           ![t].done = @ + 1]
    /\ UNCHANGED <<track_period, migration_history, calls, result>>

ThreadStep(t) ==
    \/ \E chain \in ConcChains : ThreadCall(t, chain)
    \/ ThreadAppend(t)
    \/ ThreadCheck(t)
    \/ ThreadPop(t)
    \/ ThreadGuard(t)
    \/ ThreadFitCE(t)
    \/ ThreadFitPE(t)

NextConc ==
    (\E t \in Threads : ThreadStep(t)) /\ UNCHANGED <<magnetVars, timeVars, skewVars, levelVars, alignVars, historyVars, fitVars, slopeVars>>

SpecConc == InitConc /\ [][NextConc]_vars

-----------------------------------------------------------------------------
(* One call of the magnet detector on one ladder *)

InitMagnet ==
    /\ TrackerIdle
    /\ LevelIdle /\ AlignIdle /\ HistoryIdle /\ FitIdle /\ SlopeIdle
    /\ TimeIdle
    /\ SkewIdle
    /\ \E in \in MagnetInputs :
           /\ window_size = in.w
           /\ total_oi = in.oi
    /\ magnets = NoMagnets

\* magnets = _find_local_maxima(strikes, total_oi) and
\* gaps = _find_low_oi_gaps(strikes, total_oi, magnets, spot_price)
FindMagnets ==
    /\ ~magnets.called
    /\ magnets' = [called |-> TRUE,
                   list |-> FindLocalMaxima(total_oi, window_size),
                   gaps |-> FindLowOIGaps(total_oi, FindLocalMaxima(total_oi, window_size))]
    /\ UNCHANGED <<window_size, total_oi>>

NextMagnet == FindMagnets /\ UNCHANGED <<trackerVars, timeVars, skewVars, levelVars, alignVars, historyVars, fitVars, slopeVars>>

SpecMagnet == InitMagnet /\ [][NextMagnet]_vars

-----------------------------------------------------------------------------
(* One call of the time-decay analyzer *)

InitTime ==
    /\ TrackerIdle
    /\ LevelIdle /\ AlignIdle /\ HistoryIdle /\ FitIdle /\ SlopeIdle
    /\ MagnetIdle
    /\ SkewIdle
    /\ current_time \in Times
    /\ pin_chain \in PinChains
    /\ spot_price \in PinSpots
    /\ pressure = NoPressure

\* analyze_time_pressure(chain_data, spot_price, current_time)
TimePressure ==
    /\ ~pressure.called
    /\ pressure' = AnalyzeTimePressure(pin_chain, spot_price, current_time)
    /\ UNCHANGED <<current_time, pin_chain, spot_price>>

NextTime == TimePressure /\ UNCHANGED <<trackerVars, magnetVars, skewVars, levelVars, alignVars, historyVars, fitVars, slopeVars>>

SpecTime == InitTime /\ [][NextTime]_vars

-----------------------------------------------------------------------------
(* The skew sub-analyses on a chain, and again after a leg with IV 0 has    *)
(* been added to one of its strikes                                        *)

InitSkew ==
    /\ TrackerIdle
    /\ LevelIdle /\ AlignIdle /\ HistoryIdle /\ FitIdle /\ SlopeIdle
    /\ MagnetIdle
    /\ TimeIdle
    /\ skew_chain \in SkewChains
    /\ skew_spot \in SkewSpots
    /\ skew_magnets \in {<<SkewStrikes[2]>>, <<SkewStrikes[3]>>}
    /\ skew_out = NoSkew
    /\ skew_prev = NoSkew

\* the calls of the four sub-analyses on the chain as it stands
AnalyzeSkew ==
    /\ ~skew_out.called
    /\ skew_out' = SkewSubAnalyses(skew_chain, skew_spot, skew_magnets)
    /\ UNCHANGED <<skew_chain, skew_spot, skew_magnets, skew_prev>>

\* the next snapshot: the same chain with one leg more, whose IV is 0
AddZeroLeg(i, leg) ==
    /\ skew_out.called
    /\ ~skew_prev.called
    /\ IF leg = "CE" THEN ~skew_chain[i].has_ce ELSE ~skew_chain[i].has_pe
    /\ skew_chain' = IF leg = "CE"
                     THEN [skew_chain EXCEPT ![i].has_ce = TRUE, ![i].ce_iv = 0]
                     ELSE [skew_chain EXCEPT ![i].has_pe = TRUE, ![i].pe_iv = 0]
    /\ skew_prev' = skew_out
    /\ skew_out' = NoSkew
    /\ UNCHANGED <<skew_spot, skew_magnets>>

NextSkew ==
    /\ \/ AnalyzeSkew
       \/ \E i \in 1..Len(skew_chain), leg \in {"CE", "PE"} : AddZeroLeg(i, leg)
    /\ UNCHANGED <<trackerVars, magnetVars, timeVars, levelVars, alignVars, historyVars, fitVars, slopeVars>>

SpecSkew == InitSkew /\ [][NextSkew]_vars

-----------------------------------------------------------------------------
(* One call of each level detector on one chain *)

InitLevel ==
    /\ TrackerIdle
    /\ MagnetIdle
    /\ TimeIdle
    /\ SkewIdle
    /\ AlignIdle /\ HistoryIdle /\ FitIdle /\ SlopeIdle
    /\ level_chain \in LevelChains
    /\ levels = NoLevels

\* _identify_supports(chain_data) and _identify_resistances(chain_data)
IdentifyLevels ==
    /\ ~levels.called
    /\ levels' = [called |-> TRUE,
                  supports |-> IdentifySupports(level_chain),
                  resistances |-> IdentifyResistances(level_chain)]
    /\ UNCHANGED level_chain

NextLevel == IdentifyLevels /\ UNCHANGED <<trackerVars, magnetVars, timeVars, skewVars, alignVars, historyVars, fitVars, slopeVars>>

SpecLevel == InitLevel /\ [][NextLevel]_vars

-----------------------------------------------------------------------------
(* One call of analyze_alignment on a pair of chains *)

InitAlign ==
    /\ TrackerIdle
    /\ MagnetIdle
    /\ TimeIdle
    /\ SkewIdle
    /\ LevelIdle
    /\ HistoryIdle /\ FitIdle /\ SlopeIdle
    /\ align_near \in AlignChains
    /\ align_far \in AlignChains
    /\ alignment = NoAlignment

\* analyze_alignment(current_expiry_data, next_expiry_data)
AnalyzeAlignment ==
    /\ ~alignment.called
    /\ alignment' = AnalyzeAlignmentResult(align_near, align_far)
    /\ UNCHANGED <<align_near, align_far>>

NextAlign == AnalyzeAlignment /\ UNCHANGED <<trackerVars, magnetVars, timeVars, skewVars, levelVars, historyVars, fitVars, slopeVars>>

SpecAlign == InitAlign /\ [][NextAlign]_vars

-----------------------------------------------------------------------------
(* The stored history under save_snapshot and last_n *)

InitHistory ==
    /\ TrackerIdle
    /\ MagnetIdle
    /\ TimeIdle
    /\ SkewIdle
    /\ LevelIdle
    /\ AlignIdle
    /\ HistoryIdle /\ FitIdle /\ SlopeIdle

\* save_snapshot(snapshot)
SaveSnapshot ==
    /\ saved < MaxSaves
    /\ saved' = saved + 1
    /\ history_file' = SavedHistory(history_file, saved + 1)
    /\ returned' = [op |-> "save_snapshot", n |-> 0,
                    list |-> SavedHistory(history_file, saved + 1)]

\* last_n(n)
CallLastN(n) ==
    /\ returned' = [op |-> "last_n", n |-> n, list |-> LastN(history_file, n)]
    /\ UNCHANGED <<history_file, saved>>

NextHistory ==
    /\ \/ SaveSnapshot
       \/ \E n \in 0..MaxRequest : CallLastN(n)
    /\ UNCHANGED <<trackerVars, magnetVars, timeVars, skewVars, levelVars, alignVars, fitVars, slopeVars>>

SpecHistory == InitHistory /\ [][NextHistory]_vars

-----------------------------------------------------------------------------
(* The trend fit and its strength on the strike lists of one history *)

InitFit ==
    /\ TrackerIdle
    /\ MagnetIdle
    /\ TimeIdle
    /\ SkewIdle
    /\ LevelIdle
    /\ AlignIdle
    /\ HistoryIdle
    /\ SlopeIdle
    /\ fit_ce \in StrikeSeries
    /\ fit_pe \in StrikeSeries
    /\ fit = NoFit

\* lines 62-95 of _track_migration_trend, then _assess_trend_strength
FitAndAssess ==
    /\ ~fit.called
    /\ fit' = [called |-> TRUE,
               trend |-> FitTrend(fit_ce, fit_pe),
               trend_strength |-> AssessTrendStrength(FitTrend(fit_ce, fit_pe))]
    /\ UNCHANGED <<fit_ce, fit_pe>>

NextFit ==
    FitAndAssess /\ UNCHANGED <<trackerVars, magnetVars, timeVars, skewVars, levelVars, alignVars, historyVars, slopeVars>>

SpecFit == InitFit /\ [][NextFit]_vars

-----------------------------------------------------------------------------
(* One call of _calculate_slope and the trend label of its result *)

InitSlope ==
    /\ TrackerIdle
    /\ MagnetIdle
    /\ TimeIdle
    /\ SkewIdle
    /\ LevelIdle
    /\ AlignIdle
    /\ HistoryIdle
    /\ FitIdle
    /\ slope_values \in SlopeSeries
    /\ slope_out = NoSlope

\* slope = self._calculate_slope(values), then the label of line 66
Slope ==
    /\ ~slope_out.called
    /\ slope_out' = [called |-> TRUE,
                     slope |-> CalculateSlope(slope_values),
                     trend |-> IF CalculateSlope(slope_values).den = 0 THEN "ZeroDivisionError"
                               ELSE TrendOf(CalculateSlope(slope_values))]
    /\ UNCHANGED slope_values

NextSlope ==
    Slope /\ UNCHANGED <<trackerVars, magnetVars, timeVars, skewVars, levelVars, alignVars, historyVars, fitVars>>

SpecSlope == InitSlope /\ [][NextSlope]_vars

-----------------------------------------------------------------------------
(* Claims about the migration tracker *)

\* C1: a call that leaves fewer than 3 records in the history completes
\* without raising and reports ce_trend NEUTRAL, pe_trend NEUTRAL and
\* velocity 0.
C1_ShortHistoryNeutralNoRaise ==
    (result.called /\ Len(migration_history) < MinHistory) =>
        /\ result.raised = "none"
        /\ result.migration_trend.ce_trend = "NEUTRAL"
        /\ result.migration_trend.pe_trend = "NEUTRAL"
        /\ result.migration_trend.velocity = 0

\* C2: after every call the history holds min(calls, track_period) records,
\* and they are the most recently appended ones in call order.
C2_HistoryBoundedFIFO ==
    /\ Len(migration_history) <= track_period
    /\ Len(migration_history) = Min2(calls, track_period)
    /\ \A i \in 1..Len(migration_history) :
           migration_history[i].call = calls - Len(migration_history) + i

C2_Witness ==
    /\ calls > track_period
    /\ Len(migration_history) = track_period
    /\ migration_history[1].call = calls - track_period + 1

\* every record of h has both max strikes known, the call strike 50 below
\* and the put strike 50 above those of the record before it
ScenarioC(h) ==
    /\ \A i \in 1..Len(h) :
           Truthy(h[i].rec.max_ce.strike) /\ Truthy(h[i].rec.max_pe.strike)
    /\ \A i \in 2..Len(h) :
           /\ h[i].rec.max_ce.strike = h[i - 1].rec.max_ce.strike - StrikeStep
           /\ h[i].rec.max_pe.strike = h[i - 1].rec.max_pe.strike + StrikeStep

C4_FitSeesOwnAppend ==
    \A t \in Threads :
        threads[t].pc = "fit_pe" =>
            /\ Len(threads[t].view) <= track_period
            /\ threads[t].view[Len(threads[t].view)] = threads[t].rec

-----------------------------------------------------------------------------
(* Claims about the magnet detector *)

\* the ladder positions that have window_size neighbours on each side
Centres == (window_size + 1)..(Len(total_oi) - window_size)

\* sum and sum of squares of the OI of the strikes within window_size of i
NeighbourhoodSum(i) ==
    SumTo([k \in 1..(2 * window_size + 1) |-> total_oi[i - window_size - 1 + k]],
          2 * window_size + 1)

NeighbourhoodSumSq(i) ==
    SumTo([k \in 1..(2 * window_size + 1) |->
              total_oi[i - window_size - 1 + k] * total_oi[i - window_size - 1 + k]],
          2 * window_size + 1)

\* (n * std)^2 of the neighbourhood of i
NeighbourhoodSpread(i) ==
    (2 * window_size + 1) * NeighbourhoodSumSq(i) - NeighbourhoodSum(i) * NeighbourhoodSum(i)

\* n * (total OI of i - mean of its neighbourhood)
NeighbourhoodExcess(i) == (2 * window_size + 1) * total_oi[i] - NeighbourhoodSum(i)

\* total OI of strike i is greater than mean + 2*std of its window
AboveTwoSigma(i) ==
    /\ NeighbourhoodExcess(i) > 0
    /\ NeighbourhoodExcess(i) * NeighbourhoodExcess(i) > 4 * NeighbourhoodSpread(i)

ListedPositive(i) ==
    \E k \in 1..Len(magnets.list) :
        /\ magnets.list[k].strike = i * StrikeStep
        /\ ZPositive(magnets.list[k].z_score)

\* C5 as stated: with w = 5, every strike with 5 neighbours on each side
\* whose total OI is above mean + 2*std of its window is in the returned
\* list with a positive z_score, however many strikes qualify.
C5_EveryTwoSigmaStrikeListed ==
    (magnets.called /\ window_size = DefaultWindow) =>
        \A i \in Centres : AboveTwoSigma(i) => ListedPositive(i)

\* C5 as amended: such a strike is in the returned list with a positive
\* z_score unless the list already holds 5 magnets whose z_scores are all at
\* least its own; the list never holds more than 5.
C5_TwoSigmaStrikeListedOrOutranked ==
    (magnets.called /\ window_size = DefaultWindow) =>
        /\ Len(magnets.list) <= TopMagnets
        /\ \A i \in Centres :
               AboveTwoSigma(i) =>
                   \/ ListedPositive(i)
                   \/ /\ Len(magnets.list) = TopMagnets
                      /\ \A k \in 1..Len(magnets.list) :
                             ~ZLess(magnets.list[k].z_score,
                                    [d |-> NeighbourhoodExcess(i), v |-> NeighbourhoodSpread(i)])

C5_Witness ==
    /\ magnets.called
    /\ window_size = DefaultWindow
    /\ Cardinality({i \in Centres : AboveTwoSigma(i)}) > TopMagnets
    /\ Len(magnets.list) = TopMagnets
    /\ \E i \in Centres : AboveTwoSigma(i) /\ ListedPositive(i)
    /\ \E i \in Centres : AboveTwoSigma(i) /\ ~ListedPositive(i)
    /\ \E k \in 2..Len(magnets.list) :
           ZLess(magnets.list[k].z_score, magnets.list[1].z_score)

\* C6: every returned magnet has total_oi above its window mean, a window
\* standard deviation above 0 and a z_score above 0.
C6_NoMagnetOnFlatWindow ==
    magnets.called =>
        \A k \in 1..Len(magnets.list) :
            \E i \in Centres :
                /\ magnets.list[k].strike = i * StrikeStep
                /\ magnets.list[k].total_oi = total_oi[i]
                /\ NeighbourhoodExcess(i) > 0
                /\ NeighbourhoodSpread(i) > 0
                /\ ZPositive(magnets.list[k].z_score)

C6_Witness ==
    /\ magnets.called
    /\ magnets.list # <<>>
    /\ \E i \in Centres : NeighbourhoodSpread(i) = 0

-----------------------------------------------------------------------------
(* Claims about the time-decay analyzer *)

\* some strike within 100 points of spot has combined OI above 1,000,000
PinCandidate ==
    \E i \in 1..Len(pin_chain) :
        /\ Abs(pin_chain[i].strike - spot_price) < PinRadius
        /\ pin_chain[i].ce + pin_chain[i].pe > HighOI

\* min(0.3 + (t - 0.8) * 2, 0.9) at the normalized time of the call
RampAtCall ==
    LET t == pressure.time_into_session
        ramp == Tenths(3) + 2 * (t - Tenths(8))
    IN  IF ramp < Tenths(9) THEN ramp ELSE Tenths(9)

\* C7 as stated: below 0.8 the pressure is 0.3 with no targets; from 0.8 on
\* it is min(0.3 + (t - 0.8) * 2, 0.9) for every chain and spot; it is never
\* below 0.3.
C7_PressureIsRampFromPointEight ==
    pressure.called =>
        /\ pressure.time_into_session < Tenths(8) =>
               /\ pressure.pinning_pressure.pressure = Tenths(3)
               /\ pressure.pinning_pressure.target_strikes = <<>>
        /\ pressure.time_into_session >= Tenths(8) =>
               pressure.pinning_pressure.pressure = RampAtCall
        /\ pressure.pinning_pressure.pressure >= Tenths(3)

\* C7 as amended: from 0.8 on the pressure is the ramp when some strike
\* within 100 points of spot has combined OI above 1,000,000, and 0.2 with no
\* targets when none has; it is never below 0.2.
C7_PressureIsRampWhenPinned ==
    pressure.called =>
        /\ pressure.time_into_session < Tenths(8) =>
               /\ pressure.pinning_pressure.pressure = Tenths(3)
               /\ pressure.pinning_pressure.target_strikes = <<>>
        /\ (pressure.time_into_session >= Tenths(8) /\ PinCandidate) =>
               /\ pressure.pinning_pressure.pressure = RampAtCall
               /\ pressure.pinning_pressure.pressure >= Tenths(3)
        /\ (pressure.time_into_session >= Tenths(8) /\ ~PinCandidate) =>
               /\ pressure.pinning_pressure.pressure = Tenths(2)
               /\ pressure.pinning_pressure.target_strikes = <<>>
        /\ pressure.pinning_pressure.pressure >= Tenths(2)

C7_Witness ==
    /\ pressure.called
    /\ pressure.time_into_session > Tenths(8)
    /\ PinCandidate
    /\ pressure.pinning_pressure.pressure > Tenths(3)
    /\ pressure.pinning_pressure.target_strikes # <<>>

\* the phase the intervals of the claim give to a time of day
PhaseByInterval(t) ==
    CASE HMS(9, 15, 0) <= t /\ t < HMS(10, 30, 0) -> "OPENING_PHASE"
      [] HMS(10, 30, 0) <= t /\ t < HMS(11, 30, 0) -> "MID_MORNING"
      [] HMS(11, 30, 0) <= t /\ t < HMS(13, 30, 0) -> "SELLER_COMFORT_WINDOW"
      [] HMS(13, 30, 0) <= t /\ t < HMS(14, 30, 0) -> "POST_LUNCH"
      [] HMS(14, 30, 0) <= t /\ t <= HMS(15, 30, 0) -> "GAMMA_GAME_PHASE"
      [] t < HMS(9, 15, 0) \/ t > HMS(15, 30, 0) -> "CLOSED"

\* C9: each time of day gets the phase of the one interval it lies in, the
\* intervals being closed at the start and open at the end, GAMMA_GAME_PHASE
\* closed at 15:30; the interval ends fall as the claim lists them.
C9_PhaseBoundaries ==
    pressure.called =>
        /\ pressure.time_phase = PhaseByInterval(current_time)
        /\ current_time = HMS(10, 30, 0) => pressure.time_phase = "MID_MORNING"
        /\ current_time = HMS(11, 30, 0) => pressure.time_phase = "SELLER_COMFORT_WINDOW"
        /\ current_time = HMS(13, 30, 0) => pressure.time_phase = "POST_LUNCH"
        /\ current_time \in {HMS(14, 30, 0), HMS(15, 30, 0)} =>
               pressure.time_phase = "GAMMA_GAME_PHASE"
        /\ (current_time < HMS(9, 15, 0) \/ current_time > HMS(15, 30, 0)) =>
               pressure.time_phase = "CLOSED"

C9_Witness ==
    /\ pressure.called
    /\ current_time = HMS(10, 30, 0)
    /\ pressure.time_phase = "MID_MORNING"

-----------------------------------------------------------------------------
(* Claims about the skew analyzer *)

SameMagnetSkew(a, b) ==
    /\ DOMAIN a = DOMAIN b
    /\ \A m \in DOMAIN a :
           /\ RatEq(a[m].ce_iv_ratio, b[m].ce_iv_ratio)
           /\ RatEq(a[m].pe_iv_ratio, b[m].pe_iv_ratio)
           /\ a[m].iv_stability = b[m].iv_stability

\* C8: a present leg with IV 0 is left out of every mean, so the
\* sub-analyses report the same gradient, magnet ratios and stability, crush
\* pockets and fear zones for a chain and for the chain with one more leg of
\* IV 0.
C8_ZeroIVLegChangesNothing ==
    (skew_prev.called /\ skew_out.called) =>
        /\ skew_out.iv_gradient = skew_prev.iv_gradient
        /\ SameMagnetSkew(skew_out.magnet_skew, skew_prev.magnet_skew)
        /\ skew_out.iv_crush_pockets = skew_prev.iv_crush_pockets
        /\ skew_out.fear_zones = skew_prev.fear_zones

-----------------------------------------------------------------------------
(* Claims about the level detector *)

\* the rows of the chain whose dominant leg is above 1.5 times the other leg
\* and above 100000
SupportRows == {i \in 1..Len(level_chain) :
                   /\ 2 * level_chain[i].pe > 3 * level_chain[i].ce
                   /\ level_chain[i].pe > 100000}

ResistanceRows == {i \in 1..Len(level_chain) :
                      /\ 2 * level_chain[i].ce > 3 * level_chain[i].pe
                      /\ level_chain[i].ce > 100000}

\* min(a / (b + 1), 5) / 5 as a quotient of whole numbers
ClampedFifth(a, b) == IF a >= 5 * (b + 1) THEN Rat(1, 1) ELSE Rat(a, 5 * (b + 1))

\* list is what the claim says of the rows in cands: each entry is one of
\* them with its strength, no row twice, min(5, number of rows) entries,
\* strongest first, and no row left out is stronger than an entry
TopFiveOf(list, cands, dom(_), oth(_)) ==
    /\ Len(list) = Min2(5, Cardinality(cands))
    /\ \A k \in 1..Len(list) :
           \E i \in cands :
               /\ list[k].strike = level_chain[i].strike
               /\ list[k].strength = ClampedFifth(dom(i), oth(i))
               /\ list[k].pe_oi = level_chain[i].pe
               /\ list[k].ce_oi = level_chain[i].ce
    /\ \A k, l \in 1..Len(list) : k < l =>
           /\ list[k].strike # list[l].strike
           /\ ~WeakerThan(list[k], list[l])
    /\ \A i \in cands :
           (\A k \in 1..Len(list) : list[k].strike # level_chain[i].strike) =>
               \A k \in 1..Len(list) :
                   ~FracLess(list[k].strength.num, list[k].strength.den,
                             ClampedFifth(dom(i), oth(i)).num,
                             ClampedFifth(dom(i), oth(i)).den)

PutOI(i) == level_chain[i].pe

CallOI(i) == level_chain[i].ce

\* a strike with CE oi 50000 and PE oi 200000, every other strike having
\* both legs below 100000
ScenarioA(i) ==
    /\ level_chain[i].ce = 50000
    /\ level_chain[i].pe = 200000
    /\ \A j \in 1..Len(level_chain) :
           j # i => level_chain[j].ce < 100000 /\ level_chain[j].pe < 100000

\* C10: the supports are the strikes with put_oi > 1.5 * call_oi and
\* put_oi > 100000, cut to the 5 strongest in descending strength; the
\* strike of scenario A is returned with strength min(200000/50001, 5)/5;
\* the resistances are the same with the legs swapped.
C10_SupportsAreTopFive ==
    levels.called =>
        /\ TopFiveOf(levels.supports, SupportRows, PutOI, CallOI)
        /\ TopFiveOf(levels.resistances, ResistanceRows, CallOI, PutOI)
        /\ \A i \in 1..Len(level_chain) :
               ScenarioA(i) =>
                   \E k \in 1..Len(levels.supports) :
                       /\ levels.supports[k].strike = level_chain[i].strike
                       /\ levels.supports[k].strength = Rat(200000, 5 * 50001)

C10_Witness ==
    /\ levels.called
    /\ Cardinality(SupportRows) > 5
    /\ Len(levels.supports) = 5
    /\ WeakerThan(levels.supports[5], levels.supports[1])
    /\ \E i \in SupportRows :
           /\ \A k \in 1..5 : levels.supports[k].strike # level_chain[i].strike
           /\ ClampedFifth(PutOI(i), CallOI(i)) # Rat(1, 1)
    /\ levels.resistances = <<>>

C10_WitnessScenarioA ==
    /\ levels.called
    /\ \E i \in 1..Len(level_chain) : ScenarioA(i)
    /\ Len(levels.supports) = 1

\* 0 <= q <= 1 for a quotient with a positive denominator
InUnitInterval(q) == q.den > 0 /\ q.num >= 0 /\ q.num <= q.den

\* C11: every support and every resistance level has strength in [0, 1].
C11_StrengthInUnitInterval ==
    levels.called =>
        /\ \A k \in 1..Len(levels.supports) : InUnitInterval(levels.supports[k].strength)
        /\ \A k \in 1..Len(levels.resistances) : InUnitInterval(levels.resistances[k].strength)

\* a support at the cap, whose unclamped quotient is far above 1, next to a
\* resistance strictly inside the interval
C11_Witness ==
    /\ levels.called
    /\ \E k \in 1..Len(levels.supports) :
           /\ levels.supports[k].strength = Rat(1, 1)
           /\ levels.supports[k].pe_oi > 5 * (levels.supports[k].ce_oi + 1)
    /\ \E k \in 1..Len(levels.resistances) :
           /\ levels.resistances[k].strength.num < levels.resistances[k].strength.den
           /\ levels.resistances[k].strength.num > 0

-----------------------------------------------------------------------------
(* Claims about the alignment analyzer *)

\* the rows of a chain that are supports, resistances, magnets
SupportsIn(chain) == {i \in 1..Len(chain) :
                         2 * chain[i].pe > 3 * chain[i].ce /\ chain[i].pe > 100000}

ResistancesIn(chain) == {i \in 1..Len(chain) :
                            2 * chain[i].ce > 3 * chain[i].pe /\ chain[i].ce > 100000}

MagnetsIn(chain) == {i \in 1..Len(chain) : chain[i].ce + chain[i].pe > 2000000}

\* rows i of the near chain and j of the far chain lie within 50 points
Near50(i, j) ==
    /\ align_near[i].strike - align_far[j].strike <= 50
    /\ align_far[j].strike - align_near[i].strike <= 50

\* every entry of the list is made of a near row of nears and a far row of
\* fars within 50 points, and no near row without such a far row is listed
MatchedPairsOnly(list, nears, fars, Made(_, _, _)) ==
    /\ \A k \in 1..Len(list) :
           \E i \in nears : \E j \in fars : Near50(i, j) /\ Made(list[k], i, j)
    /\ \A i \in nears :
           (\A j \in fars : ~Near50(i, j)) =>
               \A k \in 1..Len(list) : list[k].strike # align_near[i].strike

SupportPair(e, i, j) ==
    /\ e.strike = align_near[i].strike
    /\ e.current_strength = ClampedFifth(align_near[i].pe, align_near[i].ce)
    /\ e.next_strength = ClampedFifth(align_far[j].pe, align_far[j].ce)

ResistancePair(e, i, j) ==
    /\ e.strike = align_near[i].strike
    /\ e.current_strength = ClampedFifth(align_near[i].ce, align_near[i].pe)
    /\ e.next_strength = ClampedFifth(align_far[j].ce, align_far[j].pe)

MagnetPair(e, i, j) ==
    /\ e.strike = align_near[i].strike
    /\ e.current_strength = align_near[i].ce + align_near[i].pe
    /\ e.next_strength = align_far[j].ce + align_far[j].pe

\* C12: every aligned support, resistance and magnet comes from a near level
\* and a far level of the same kind at most 50 points apart, and a near
\* level with no far counterpart within 50 is never in the aligned list.
C12_AlignedWithinFifty ==
    alignment.called =>
        /\ MatchedPairsOnly(alignment.support_alignment.aligned,
                            SupportsIn(align_near), SupportsIn(align_far), SupportPair)
        /\ MatchedPairsOnly(alignment.resistance_alignment.aligned,
                            ResistancesIn(align_near), ResistancesIn(align_far), ResistancePair)
        /\ MatchedPairsOnly(alignment.magnet_alignment.aligned,
                            MagnetsIn(align_near), MagnetsIn(align_far), MagnetPair)

\* a near support matched only by the far support one strike away, another
\* near support with no far support within 50, and a matched magnet
C12_Witness ==
    /\ alignment.called
    /\ Len(alignment.support_alignment.aligned) = 1
    /\ \E i \in SupportsIn(align_near) : \E j \in SupportsIn(align_far) :
           /\ align_near[i].strike # align_far[j].strike
           /\ Near50(i, j)
           /\ alignment.support_alignment.aligned[1].strike = align_near[i].strike
    /\ \E i \in SupportsIn(align_near) : \A j \in SupportsIn(align_far) : ~Near50(i, j)
    /\ alignment.magnet_alignment.aligned # <<>>

\* the number of entries tagged SWING_ANCHOR over the number of entries
StrongFraction(list) ==
    Rat(Cardinality({k \in 1..Len(list) : list[k].type = "SWING_ANCHOR"}), Len(list))

RECURSIVE RatioTotal(_, _)
\* the sum of the alignment ratios of the first n entries
RatioTotal(list, n) ==
    IF n = 0 THEN RatZero ELSE LowestSum(list[n].alignment_ratio, RatioTotal(list, n - 1))

MeanRatio(list) == Rat(RatioTotal(list, Len(list)).num, RatioTotal(list, Len(list)).den * Len(list))

\* the terms of the score that are included, one per non-empty match set
IncludedTerms ==
    (IF alignment.support_alignment.aligned # <<>>
     THEN {<<"support", StrongFraction(alignment.support_alignment.aligned)>>} ELSE {})
    \cup (IF alignment.resistance_alignment.aligned # <<>>
          THEN {<<"resistance", StrongFraction(alignment.resistance_alignment.aligned)>>} ELSE {})
    \cup (IF alignment.magnet_alignment.aligned # <<>>
          THEN {<<"magnet", MeanRatio(alignment.magnet_alignment.aligned)>>} ELSE {})

RECURSIVE TermTotal(_)
TermTotal(terms) ==
    IF terms = {} THEN RatZero
    ELSE LET t == CHOOSE x \in terms : TRUE
         IN  LowestSum(t[2], TermTotal(terms \ {t}))

\* C13: overall_alignment_score is the unweighted mean of the strong-anchor
\* fraction of the matched supports, that of the matched resistances and the
\* mean magnet alignment ratio, each only when its match set is non-empty;
\* it is 0 when nothing matches and always lies in [0, 1].
C13_ScoreIsMeanOfIncludedTerms ==
    alignment.called =>
        /\ IncludedTerms = {} => alignment.overall_alignment_score.num = 0
        /\ IncludedTerms # {} =>
               RatEq(alignment.overall_alignment_score,
                     Rat(TermTotal(IncludedTerms).num,
                         TermTotal(IncludedTerms).den * Cardinality(IncludedTerms)))
        /\ InUnitInterval(alignment.overall_alignment_score)

\* two terms included and one left out: supports half strong, magnets with
\* ratio below 1, no resistance matched
C13_Witness ==
    /\ alignment.called
    /\ alignment.resistance_alignment.aligned = <<>>
    /\ Len(alignment.support_alignment.aligned) = 2
    /\ alignment.support_alignment.strong_anchor_count = 1
    /\ alignment.magnet_alignment.aligned # <<>>
    /\ RatLess(alignment.magnet_alignment.average_alignment_ratio, Rat(1, 1))
    /\ RatLess(alignment.overall_alignment_score, Rat(1, 1))

\* nothing matches anywhere although both chains have levels
C13_WitnessNoMatch ==
    /\ alignment.called
    /\ IncludedTerms = {}
    /\ SupportsIn(align_near) # {}
    /\ SupportsIn(align_far) # {}

\* C17: a near support tagged GAMMA_ONLY in support_alignment is never
\* listed in gamma_vs_swing.swing_anchor_levels with type SWING_ANCHOR.
C17_GammaOnlyNeverSwingAnchor ==
    alignment.called =>
        \A k \in 1..Len(alignment.support_alignment.aligned) :
            alignment.support_alignment.aligned[k].type = "GAMMA_ONLY" =>
                \A l \in 1..Len(alignment.gamma_vs_swing.swing_anchor_levels) :
                    ~ /\ alignment.gamma_vs_swing.swing_anchor_levels[l].strike =
                             alignment.support_alignment.aligned[k].strike
                      /\ alignment.gamma_vs_swing.swing_anchor_levels[l].type = "SWING_ANCHOR"

\* the set of near strikes listed in an aligned list
ListedStrikes(list) == {list[k].strike : k \in 1..Len(list)}

\* C18: each near level is reported at most once in each of the three
\* alignments, so alignment_count never exceeds the number of near levels
\* of that kind.
C18_NearLevelReportedOnce ==
    alignment.called =>
        /\ alignment.support_alignment.alignment_count =
               Cardinality(ListedStrikes(alignment.support_alignment.aligned))
        /\ alignment.resistance_alignment.alignment_count =
               Cardinality(ListedStrikes(alignment.resistance_alignment.aligned))
        /\ alignment.magnet_alignment.alignment_count =
               Cardinality(ListedStrikes(alignment.magnet_alignment.aligned))
        /\ alignment.support_alignment.alignment_count <= Cardinality(SupportsIn(align_near))
        /\ alignment.resistance_alignment.alignment_count <= Cardinality(ResistancesIn(align_near))
        /\ alignment.magnet_alignment.alignment_count <= Cardinality(MagnetsIn(align_near))

-----------------------------------------------------------------------------
(* Claims about the gaps between magnets *)

\* the strikes of the returned magnets
MagnetStrikes == {magnets.list[k].strike : k \in 1..Len(magnets.list)}

\* the strikes of the ladder
LadderStrikes == {i * 50 : i \in 1..Len(total_oi)}

\* C14: every gap is bounded by two returned magnets adjacent in strike
\* order, has from_strike < to_strike, at least one strike strictly inside
\* and oi_ratio < 0.3; no two gaps overlap.
C14_GapsBetweenAdjacentMagnets ==
    magnets.called =>
        /\ \A k \in 1..Len(magnets.gaps) :
               LET g == magnets.gaps[k]
               IN  /\ g.from_strike \in MagnetStrikes
                   /\ g.to_strike \in MagnetStrikes
                   /\ g.from_strike < g.to_strike
                   /\ \A m \in MagnetStrikes : ~(g.from_strike < m /\ m < g.to_strike)
                   /\ \E x \in LadderStrikes : g.from_strike < x /\ x < g.to_strike
                   /\ g.strikes_in_gap >= 1
                   /\ 10 * g.oi_ratio.num < 3 * g.oi_ratio.den
        /\ \A k, l \in 1..Len(magnets.gaps) :
               k # l => \/ magnets.gaps[k].to_strike <= magnets.gaps[l].from_strike
                        \/ magnets.gaps[l].to_strike <= magnets.gaps[k].from_strike

\* two gaps side by side, found although the magnets come ranked by z_score
\* in an order that is not the strike order
C14_Witness ==
    /\ magnets.called
    /\ Len(magnets.gaps) >= 2
    /\ \E k \in 1..(Len(magnets.list) - 1) :
           magnets.list[k].strike > magnets.list[k + 1].strike

\* two magnets on neighbouring strikes: no gap for the pair
C14_WitnessNoInterior ==
    /\ magnets.called
    /\ \E a, b \in MagnetStrikes : b = a + 50
    /\ magnets.gaps = <<>>

\* two magnets with strikes between them whose OI is too high for a gap
C14_WitnessDenseInterior ==
    /\ magnets.called
    /\ \E a, b \in MagnetStrikes : b > a + 50
    /\ magnets.gaps = <<>>

-----------------------------------------------------------------------------
(* Claims about the stored history *)

\* the snapshots the store still holds: the last 40 saved, oldest first
Retained == [k \in 1..Min2(saved, 40) |-> saved - Min2(saved, 40) + k]

\* C15: last_n(n) returns at most n snapshots for every n >= 0, n = 0
\* included, and they are the most recently saved ones, oldest first.
C15_LastNReturnsAtMostN ==
    returned.op = "last_n" =>
        /\ Len(returned.list) <= returned.n
        /\ Len(returned.list) = Min2(returned.n, Len(Retained))
        /\ \A k \in 1..Len(returned.list) :
               returned.list[k] = saved - Len(returned.list) + k

-----------------------------------------------------------------------------
(* Further claims about the migration tracker *)

\* C16: once the history holds 3 or more records, analyze_migration returns
\* without raising, also for a snapshot in which a leg has no positive OI
\* while earlier records make that leg trend DOWN (call) or UP (put).
C16_CompleteResultFromThreeRecords ==
    (result.called /\ Len(migration_history) >= 3) => result.raised = "none"

C20_WitnessConsolidation ==
    /\ fit.called
    /\ fit.trend.overall = "CONSOLIDATION"
    /\ 2 * fit.trend_strength.num < fit.trend_strength.den

\* a bearish regime on steep series, capped at 1
C20_WitnessCapped ==
    /\ fit.called
    /\ fit.trend.overall = "BEARISH"
    /\ RatLess(Rat(2, 1), RatAdd(RatAbs(fit.trend.ce_slope), RatAbs(fit.trend.pe_slope)))
    /\ fit.trend_strength.num = fit.trend_strength.den

-----------------------------------------------------------------------------
(* Further claims about the time-decay analyzer *)

\* C19: seller_aggression is 0.8 at exactly the times whose time_phase is
\* SELLER_COMFORT_WINDOW (11:30-13:30), and 0.9 at exactly the in-session
\* times from 14:30 on.
C19_AggressionFollowsClockPhases ==
    pressure.called =>
        /\ (pressure.seller_aggression = Tenths(8)) <=>
               (pressure.time_phase = "SELLER_COMFORT_WINDOW")
        /\ (pressure.seller_aggression = Tenths(9)) <=>
               (HMS(14, 30, 0) <= current_time /\ current_time <= HMS(15, 30, 0))

-----------------------------------------------------------------------------
(* Claims about the slope *)

\* n * sum(x^2) - (sum x)^2 over x = 0..n-1
SlopeDenominator(n) ==
    n * SumTo([i \in 1..n |-> (i - 1) * (i - 1)], n)
    - SumTo([i \in 1..n |-> i - 1], n) * SumTo([i \in 1..n |-> i - 1], n)

\* C21: _calculate_slope never divides by zero: for a series of length
\* n >= 2 the denominator n*sum(x^2) - (sum x)^2 is strictly positive, a
\* series of length < 2 yields 0, and a constant series yields slope
\* exactly 0, hence trend FLAT.
C21_SlopeNeverDividesByZero ==
    slope_out.called =>
        /\ slope_out.slope.den # 0
        /\ Len(slope_values) >= 2 =>
               /\ SlopeDenominator(Len(slope_values)) > 0
               /\ slope_out.slope.den = SlopeDenominator(Len(slope_values))
        /\ \A n \in 2..DefaultTrackPeriod : SlopeDenominator(n) > 0
        /\ Len(slope_values) < 2 => slope_out.slope.num = 0
        /\ (\A i, j \in 1..Len(slope_values) : slope_values[i] = slope_values[j]) =>
               /\ slope_out.slope.num = 0
               /\ Len(slope_values) >= 2 => slope_out.trend = "FLAT"

\* a constant series of three or more strikes: slope 0 over a positive
\* denominator, trend FLAT
C21_Witness ==
    /\ slope_out.called
    /\ Len(slope_values) >= 3
    /\ \A i \in 1..Len(slope_values) : slope_values[i] = slope_values[1]
    /\ slope_out.slope.num = 0
    /\ slope_out.slope.den > 1
    /\ slope_out.trend = "FLAT"

\* a series of one strike: 0 without any division
C21_WitnessSingle ==
    /\ slope_out.called
    /\ Len(slope_values) = 1
    /\ slope_out.slope = RatZero

\* a series of two strikes that differ: the smallest denominator
C21_WitnessPair ==
    /\ slope_out.called
    /\ Len(slope_values) = 2
    /\ slope_out.slope.den = 1
    /\ slope_out.slope.num # 0

=============================================================================
